---- MODULE Spec2Model ----
(***************************************************************************)
(* Structured-document editing core: the entry store (WritableState), the  *)
(* node handlers (array, wrapped, primitive, multiple choice), path        *)
(* resolution and the command dispatcher of the StateManager.              *)
(*                                                                         *)
(* Conventions of the translation                                          *)
(*  - a key `${n}:${type}` is the pair <<n, type>>; `null`/`undefined`     *)
(*    keys and entries are Null and NullEntry;                             *)
(*  - a string is a sequence of one-character strings;                     *)
(*  - JavaScript arrays are 0-based: At, JsSlice and IndexOf translate;    *)
(*  - the writable store is threaded through the handlers as the record    *)
(*    [entries, cursor, lastKey, thrown]; a JavaScript exception sets      *)
(*    thrown and every later step of the same call is skipped.             *)
(***************************************************************************)
EXTENDS Integers, Sequences, FiniteSets, TLC

VARIABLES
  entries,          \* Y.Map: key -> entry
  cursor,           \* Y.Map 'cursor'
  counter,          \* Y.Map 'counter'
  lastKey,          \* WritableState.lastKey
  updateCallDepth,  \* StateManager.updateCallDepth
  lastUpdateCount,  \* StateManager.lastUpdateCount
  listener,         \* StateManager.listener (number of registered listeners)
  notified,         \* number of invocations of a registered listener so far
  call,             \* the last outermost call: command, result and what it did
  steps,            \* number of commands dispatched so far
  network           \* Yjs updates sent by the WebrtcProvider, not yet received

vars == <<entries, cursor, counter, lastKey, updateCallDepth, lastUpdateCount,
          listener, notified, call, steps, network>>

----------------------------------------------------------------------------
(* Bounds of the model *)

\* number of commands dispatched in one behaviour
MaxCommands == 2

\* number of commands dispatched in one behaviour of SpecShared
MaxSharedCommands == 2

\* number of batches each writer completes in one behaviour of SpecReplicated
MaxBatches == 2

\* number of values inserted in one behaviour of SpecInsert
MaxInserts == 2

\* number of splits in one behaviour of SpecSplit
MaxSplits == 2

\* number of selectStart / selectEnd calls in one behaviour of SpecSelect
MaxSelects == 2

\* length of the text that SpecSplit starts with
MaxTextLen == 3

----------------------------------------------------------------------------
(* Values *)

Undefined == -99
SlotTask == -11
SlotAnswers == -12
SlotIsCorrect == -13
SlotAnswer == -14

Null == <<-1, "null">>
NullEntry == [type |-> "null", key |-> Null, parent |-> Null, value |-> Null]
NullPoint == [key |-> Null, index |-> Undefined]
NullCursor == [start |-> NullPoint, end |-> NullPoint]

nodeTypes == {"content", "paragraph", "text", "multipleChoice", "root",
              "multipleChoiceAnswers", "multipleChoiceAnswer", "boolean"}

ArrayTypes == {"root", "content", "multipleChoiceAnswers"}

Key(n, type) == <<n, type>>
parseType(key) == key[2]

Min(a, b) == IF a < b THEN a ELSE b
Max(a, b) == IF a > b THEN a ELSE b

\* Array.prototype.slice / String.prototype.slice with 0-based, clamped and
\* negative-from-the-end arguments
JsSlice(seq, a, b) ==
  LET n == Len(seq)
      from == IF a < 0 THEN Max(n + a, 0) ELSE Min(a, n)
      to == IF b < 0 THEN Max(n + b, 0) ELSE Min(b, n)
  IN IF from < to THEN SubSeq(seq, from + 1, to) ELSE <<>>

JsSliceFrom(seq, a) == JsSlice(seq, a, Len(seq))

\* value[i] of a JavaScript array of keys: undefined outside 0..length-1
At(seq, i) == IF i >= 0 /\ i < Len(seq) THEN seq[i + 1] ELSE Null

\* Array.prototype.indexOf
IndexOf(seq, x) ==
  IF \E i \in 1..Len(seq) : seq[i] = x
    THEN (CHOOSE i \in 1..Len(seq) : seq[i] = x /\ \A j \in 1..(i - 1) : seq[j] # x) - 1
    ELSE -1

\* isEqual(start, end) of es-toolkit on two points
isCollapsed(c) == c.start.key = c.end.key /\ c.start.index = c.end.index

Point(key, index) == [key |-> key, index |-> index]
Caret(point) == [start |-> point, end |-> point]

----------------------------------------------------------------------------
(* WritableState (state/entry.ts) *)

IsNull(entry) == entry.key = Null

\* `const r = value; continuation(r)`: the value of a JavaScript statement
\* handed to the statements that follow it
Let(value, continuation(_)) == continuation(value)

Throw(state) == [state EXCEPT !.thrown = TRUE]

Has(state, key) == key \in DOMAIN state.entries

\* ReadonlyState.getEntry: the caller tests Has first and throws otherwise
getEntry(state, key) == state.entries[key]

\* generateKey without `this.lastKey += 1`
generateKey_withoutIncrement(state, type) ==
  [state |-> [state EXCEPT !.keys = Append(@, state.lastKey + 1)],
   key |-> Key(state.lastKey + 1, type)]

generateKey(state, type) ==
  [state |-> [state EXCEPT !.lastKey = @ + 1,
                           !.keys = Append(@, state.lastKey + 1)],
   key |-> Key(state.lastKey + 1, type)]

\* StateManager.updateFunc, the observer registered on the Y.Map by
\* addUpdateListener: Y.Map calls it after every set
updateFunc(state) ==
  IF state.lastUpdateCount # state.counter
    THEN [state EXCEPT !.lastUpdateCount = state.counter,
                       !.notified = @ + state.listener,
                       !.notifiedAt = IF state.listener > 0
                                        THEN Append(@, state.updateCallDepth)
                                        ELSE @]
    ELSE state

Observe(state) == IF state.listener > 0 THEN updateFunc(state) ELSE state

\* a set that also advances the counter
set_countingMutations(state, key, entry) ==
  Observe([state EXCEPT !.entries = (key :> entry) @@ @, !.mutations = @ + 1,
                        !.counter = @ + 1])

set(state, key, entry) ==
  Observe([state EXCEPT !.entries = (key :> entry) @@ @, !.mutations = @ + 1])

incCounter(state) == Observe([state EXCEPT !.counter = @ + 1])

\* the record of an insert whose this.set(key, entry) finds an entry under
\* the key
Overwriting(state, key) ==
  IF Has(state, key) THEN [state EXCEPT !.overwritten = Append(@, key)]
  ELSE state

\* insert after `const key = this.generateKey(type)`: g is the result of
\* generateKey and cv, [state, value, isNull], that of createValue(key)
\* an insert that takes every falsy value for the abort sentinel
insert_rejectingFalsy(g, type, parent, cv) ==
  LET entry == [type |-> type, key |-> g.key, parent |-> parent,
                value |-> cv.value]
      falsy == /\ ~cv.isNull
               /\ \/ type = "text" /\ cv.value = <<>>
                  \/ type = "boolean" /\ cv.value = FALSE
  IN IF cv.state.thrown \/ cv.isNull \/ falsy
       THEN [state |-> cv.state, entry |-> NullEntry]
       ELSE [state |-> set(Overwriting(cv.state, g.key), g.key, entry),
             entry |-> entry]

insert(g, type, parent, cv) ==
  LET entry == [type |-> type, key |-> g.key, parent |-> parent,
                value |-> cv.value]
  IN IF cv.state.thrown \/ cv.isNull
       THEN [state |-> cv.state, entry |-> NullEntry]
       ELSE [state |-> set(Overwriting(cv.state, g.key), g.key, entry),
             entry |-> entry]

\* the value handed to the updateFn of update: this.getEntry(key).value
Prev(state, key) == getEntry(state, key).value

\* update: u, [state, value], is the result of updateFn(Prev(state, key)),
\* which is not evaluated when getEntry throws
update(state, key, u) ==
  IF ~Has(state, key) THEN [state |-> Throw(state), entry |-> NullEntry]
  ELSE LET old == getEntry(state, key)
           newEntry == [type |-> old.type, key |-> key, parent |-> old.parent,
                        value |-> u.value]
       IN IF u.state.thrown THEN [state |-> u.state, entry |-> NullEntry]
          ELSE [state |-> set(u.state, key, newEntry), entry |-> newEntry]

setCursor(state, c) ==
  Observe([state EXCEPT !.cursor = c, !.mutations = @ + 1])

setCaret(state, point) == setCursor(state, Caret(point))

Value(state, v) == [state |-> state, value |-> v, isNull |-> FALSE]
NullValue(state) == [state |-> state, value |-> Null, isNull |-> TRUE]

----------------------------------------------------------------------------
(* Node handlers: insert, createEmpty, read *)

childHandler(type) ==
  IF type = "multipleChoiceAnswers" THEN "multipleChoiceAnswer" ELSE "paragraph"

RECURSIVE HandlerInsert(_, _, _, _)
RECURSIVE MapInsert(_, _, _, _)

\* children.map((child) => getHandler(child.type).insert(state, key, child).key)
MapInsert(state, key, children, i) ==
  IF i > Len(children) THEN Value(state, <<>>)
  ELSE LET r == HandlerInsert(state, children[i].type, key, children[i])
           rest == MapInsert(r.state, key, children, i + 1)
       IN IF r.state.thrown THEN Value(r.state, <<>>)
          ELSE Value(rest.state, <<r.entry.key>> \o rest.value)

\* getHandler(type).insert(state, parent, value)
HandlerInsert(state, type, parent, v) ==
  LET g == generateKey(state, type)
      s == g.state
      key == g.key
  IN insert(g, type, parent,
       CASE type \in ArrayTypes -> MapInsert(s, key, v, 1)
         [] type = "paragraph" ->
              LET r == HandlerInsert(s, "text", key, v.value)
              IN Value(r.state, r.entry.key)
         [] type \in {"text", "boolean"} -> Value(s, v)
         [] type = "multipleChoiceAnswer" ->
              LET b == HandlerInsert(s, "boolean", key, v.isCorrect)
                  t == HandlerInsert(b.state, "text", key, v.answer)
              IN IF b.state.thrown THEN NullValue(b.state)
                 ELSE Value(t.state, [isCorrect |-> b.entry.key,
                                      answer |-> t.entry.key])
         [] type = "multipleChoice" ->
              LET t == HandlerInsert(s, "content", key, v.task)
                  a == HandlerInsert(t.state, "multipleChoiceAnswers", key,
                                     v.answers)
              IN IF t.state.thrown THEN NullValue(t.state)
                 ELSE Value(a.state, [task |-> t.entry.key,
                                      answers |-> a.entry.key]))

RECURSIVE createEmpty(_, _, _)

\* getHandler(type).createEmpty(state, parent)
createEmpty(state, type, parent) ==
  LET g == generateKey(state, type)
      s == g.state
      key == g.key
  IN insert(g, type, parent,
       CASE type \in ArrayTypes ->
              LET r == createEmpty(s, childHandler(type), key)
              IN Value(r.state, <<r.entry.key>>)
         [] type = "paragraph" ->
              LET r == createEmpty(s, "text", key)
              IN Value(r.state, r.entry.key)
         [] type = "text" -> Value(s, <<>>)
         [] type = "boolean" -> Value(s, FALSE)
         [] type = "multipleChoiceAnswer" ->
              LET b == createEmpty(s, "boolean", key)
                  t == createEmpty(b.state, "text", key)
              IN IF b.state.thrown THEN NullValue(b.state)
                 ELSE Value(t.state, [isCorrect |-> b.entry.key,
                                      answer |-> t.entry.key])
         [] type = "multipleChoice" ->
              LET t == createEmpty(s, "content", key)
                  a == createEmpty(t.state, "multipleChoiceAnswers", key)
              IN IF t.state.thrown THEN NullValue(t.state)
                 ELSE Value(a.state, [task |-> t.entry.key,
                                      answers |-> a.entry.key]))

\* read yields [ok, value]; ok is FALSE when a getEntry inside it throws
ReadThrows == [ok |-> FALSE, value |-> Null]

RECURSIVE read(_, _, _)
RECURSIVE MapRead(_, _, _)

\* the array read yielding its children last to first
MapRead_reversed(state, value, i) ==
  IF i > Len(value) THEN [ok |-> TRUE, value |-> <<>>]
  ELSE LET r == read(state, parseType(value[i]), value[i])
           rest == MapRead(state, value, i + 1)
       IN IF r.ok /\ rest.ok
            THEN [ok |-> TRUE, value |-> rest.value \o <<r.value>>]
            ELSE ReadThrows

\* value.map((childKey) => getHandler(childKey).read(state, childKey))
MapRead(state, value, i) ==
  IF i > Len(value) THEN [ok |-> TRUE, value |-> <<>>]
  ELSE LET r == read(state, parseType(value[i]), value[i])
           rest == MapRead(state, value, i + 1)
       IN IF r.ok /\ rest.ok
            THEN [ok |-> TRUE, value |-> <<r.value>> \o rest.value]
            ELSE ReadThrows

\* the handler of `type` reading `key`
read(state, type, key) ==
  IF ~Has(state, key) THEN ReadThrows
  ELSE
    LET e == getEntry(state, key) IN
    CASE type \in ArrayTypes -> MapRead(state, e.value, 1)
      [] type = "paragraph" ->
           LET c == read(state, "text", e.value)
           IN IF c.ok THEN [ok |-> TRUE,
                            value |-> [type |-> e.type, value |-> c.value]]
              ELSE ReadThrows
      [] type \in {"text", "boolean"} -> [ok |-> TRUE, value |-> e.value]
      [] type = "multipleChoiceAnswer" ->
           LET b == read(state, "boolean", e.value.isCorrect)
               t == read(state, "text", e.value.answer)
           IN IF b.ok /\ t.ok
                THEN [ok |-> TRUE,
                      value |-> [type |-> "multipleChoiceAnswer",
                                 isCorrect |-> b.value, answer |-> t.value]]
                ELSE ReadThrows
      [] type = "multipleChoice" ->
           LET t == read(state, "content", e.value.task)
               a == read(state, "multipleChoiceAnswers", e.value.answers)
           IN IF t.ok /\ a.ok
                THEN [ok |-> TRUE,
                      value |-> [type |-> "multipleChoice",
                                 task |-> t.value, answers |-> a.value]]
                ELSE ReadThrows

----------------------------------------------------------------------------
(* Node handlers: selectStart, selectEnd, select *)

\* const [first, ...next] = indexPath
First(indexPath) == IF Len(indexPath) > 0 THEN indexPath[1] ELSE Undefined
Rest(indexPath) == IF Len(indexPath) > 0 THEN Tail(indexPath) ELSE <<>>

TextSelectStart(state, entry) == setCaret(state, Point(entry.key, 0))

TextSelectEnd(state, entry) == setCaret(state, Point(entry.key, Len(entry.value)))

\* index ?? value.length
TextSelect(state, entry, indexPath) ==
  setCaret(state, Point(entry.key,
                        IF First(indexPath) = Undefined THEN Len(entry.value)
                        ELSE First(indexPath)))

PrimitiveSelect(state, entry) == setCaret(state, Point(entry.key, Undefined))

RECURSIVE selectStart(_, _)
RECURSIVE selectEnd(_, _)

\* state.getEntry(key) followed by the handler's selectStart on it
SelectStartOf(state, key) ==
  IF ~Has(state, key) THEN Throw(state) ELSE selectStart(state, getEntry(state, key))

SelectEndOf(state, key) ==
  IF ~Has(state, key) THEN Throw(state) ELSE selectEnd(state, getEntry(state, key))

selectStart(state, entry) ==
  CASE entry.type \in ArrayTypes ->
         IF At(entry.value, 0) = Null THEN state
         ELSE SelectStartOf(state, At(entry.value, 0))
    [] entry.type = "paragraph" -> SelectStartOf(state, entry.value)
    [] entry.type = "text" -> TextSelectStart(state, entry)
    [] entry.type = "boolean" -> PrimitiveSelect(state, entry)
    [] entry.type = "multipleChoiceAnswer" -> SelectStartOf(state, entry.value.answer)
    [] entry.type = "multipleChoice" -> SelectStartOf(state, entry.value.task)

selectEnd(state, entry) ==
  CASE entry.type \in ArrayTypes ->
         IF At(entry.value, Len(entry.value) - 1) = Null THEN state
         ELSE SelectStartOf(state, At(entry.value, Len(entry.value) - 1))
    [] entry.type = "paragraph" -> SelectEndOf(state, entry.value)
    [] entry.type = "text" -> TextSelectEnd(state, entry)
    [] entry.type = "boolean" -> PrimitiveSelect(state, entry)
    [] entry.type = "multipleChoiceAnswer" -> SelectEndOf(state, entry.value.answer)
    [] entry.type = "multipleChoice" -> SelectEndOf(state, entry.value.answers)

\* createArrayHandler.select: throw new Error('not implemented yet')
ArraySelect(state) == Throw(state)

\* getHandler(entry).select(state, entry, indexPath)
select(state, entry, indexPath) ==
  CASE entry.type \in ArrayTypes -> ArraySelect(state)
    [] entry.type = "paragraph" ->
         IF ~Has(state, entry.value) THEN Throw(state)
         ELSE TextSelect(state, getEntry(state, entry.value), Rest(indexPath))
    [] entry.type = "text" -> TextSelect(state, entry, indexPath)
    [] entry.type = "boolean" -> PrimitiveSelect(state, entry)
    [] entry.type = "multipleChoiceAnswer" ->
         IF First(indexPath) = SlotIsCorrect
           THEN IF ~Has(state, entry.value.isCorrect) THEN Throw(state)
                ELSE PrimitiveSelect(state, getEntry(state, entry.value.isCorrect))
         ELSE IF First(indexPath) = SlotAnswer
           THEN IF ~Has(state, entry.value.answer) THEN Throw(state)
                ELSE TextSelect(state, getEntry(state, entry.value.answer),
                                Rest(indexPath))
         ELSE setCaret(state, Point(entry.key, Undefined))
    [] entry.type = "multipleChoice" ->
         IF First(indexPath) = SlotTask
           THEN IF ~Has(state, entry.value.task) THEN Throw(state)
                ELSE ArraySelect(state)
         ELSE IF First(indexPath) = SlotAnswers
           THEN IF ~Has(state, entry.value.answers) THEN Throw(state)
                ELSE ArraySelect(state)
         ELSE setCaret(state, Point(entry.key, Undefined))

----------------------------------------------------------------------------
(* Node handlers: split, merge, getIndexWithin *)

\* records that the operation op of the handler of the entry `key` has
\* returned null, and whether an entry or the cursor differs from what it
\* was when the operation was called
Declined(before, after, op, key) ==
  [after EXCEPT !.nulls =
     Append(@, [op |-> op, key |-> key,
                changed |-> \/ after.entries # before.entries
                            \/ after.cursor # before.cursor])]

\* a split result, recorded if it is null
LogSplit(state, entry, r) ==
  IF r.isNull /\ ~r.state.thrown
    THEN [r EXCEPT !.state = Declined(state, r.state, "split", entry.key)]
    ELSE r

\* a merge result, recorded if it is null
LogMerge(state, entry, r) ==
  IF ~r.ok /\ ~r.state.thrown
    THEN [r EXCEPT !.state = Declined(state, r.state, "merge", entry.key)]
    ELSE r

NoSplit(state) ==
  [state |-> state, isNull |-> TRUE, left |-> NullEntry, right |-> NullEntry]

\* split ignoring newParentKey
OrParent_ignoringNewParent(newParentKey, parent) == parent

\* newParentKey ?? parent
OrParent(newParentKey, parent) == IF newParentKey = Null THEN parent ELSE newParentKey

TextSplit(state, entry, indexPath, newParentKey) ==
  LET index == First(indexPath) IN
  IF index = Undefined \/ index >= Len(entry.value) THEN NoSplit(state)
  ELSE LET leftPart == JsSlice(entry.value, 0, index)
           rightPart == JsSliceFrom(entry.value, index)
           l == update(state, entry.key, Value(state, leftPart))
           g == generateKey(l.state, "text")
           r == insert(g, "text", OrParent(newParentKey, entry.parent),
                       Value(g.state, rightPart))
       IN IF l.state.thrown THEN NoSplit(l.state)
          ELSE IF r.state.thrown THEN NoSplit(r.state)
          ELSE [state |-> r.state, isNull |-> FALSE,
                left |-> l.entry, right |-> r.entry]

WrappedSplit(state, entry, indexPath, newParentKey) ==
  IF ~Has(state, entry.value) THEN NoSplit(Throw(state))
  ELSE
    Let(generateKey(state, entry.type), LAMBDA g :
    Let(LogSplit(g.state, getEntry(state, entry.value),
                 TextSplit(g.state, getEntry(state, entry.value),
                           Rest(indexPath), g.key)),
        LAMBDA sp :
    Let(insert(g, entry.type, OrParent(newParentKey, entry.parent),
               IF sp.isNull THEN NullValue(sp.state)
               ELSE Value(sp.state, sp.right.key)),
        LAMBDA newEntry :
          IF IsNull(newEntry.entry) THEN NoSplit(newEntry.state)
          ELSE [state |-> newEntry.state, isNull |-> FALSE,
                left |-> entry, right |-> newEntry.entry])))

\* getHandler(entry).split(state, entry, indexPath, newParentKey)
split(state, entry, indexPath, newParentKey) ==
  LogSplit(state, entry,
    CASE entry.type = "paragraph" -> WrappedSplit(state, entry, indexPath, newParentKey)
      [] entry.type = "text" -> TextSplit(state, entry, indexPath, newParentKey)
      [] OTHER -> NoSplit(state))

\* a merge that puts the second text in front of the first
TextMerge_prepending(state, entry, withEntry) ==
  [state |-> update(state, entry.key,
                    Value(state, withEntry.value \o Prev(state, entry.key))).state,
   ok |-> TRUE]

\* merge yields [state, ok]: ok is FALSE for null
TextMerge(state, entry, withEntry) ==
  [state |-> update(state, entry.key,
                    Value(state, Prev(state, entry.key) \o withEntry.value)).state,
   ok |-> TRUE]

WrappedMerge(state, entry, withEntry) ==
  IF ~Has(state, entry.value) \/ ~Has(state, withEntry.value)
    THEN [state |-> Throw(state), ok |-> FALSE]
    ELSE TextMerge(state, getEntry(state, entry.value),
                   getEntry(state, withEntry.value))

\* getHandler(entry).merge(state, entry, withEntry)
merge(state, entry, withEntry) ==
  LogMerge(state, entry,
    CASE entry.type = "paragraph" -> WrappedMerge(state, entry, withEntry)
      [] entry.type = "text" -> TextMerge(state, entry, withEntry)
      [] OTHER -> [state |-> state, ok |-> FALSE])

\* getIndexWithin yields [ok, index]; ok is FALSE when it throws
getIndexWithin(entry, childKey) ==
  CASE entry.type \in ArrayTypes ->
         [ok |-> TRUE, index |-> IndexOf(entry.value, childKey)]
    [] entry.type = "paragraph" -> [ok |-> TRUE, index |-> Undefined]
    [] entry.type \in {"text", "boolean"} -> [ok |-> FALSE, index |-> Undefined]
    [] entry.type = "multipleChoiceAnswer" ->
         IF childKey = entry.value.isCorrect
           THEN [ok |-> TRUE, index |-> SlotIsCorrect]
         ELSE IF childKey = entry.value.answer
           THEN [ok |-> TRUE, index |-> SlotAnswer]
         ELSE [ok |-> FALSE, index |-> Undefined]
    [] entry.type = "multipleChoice" ->
         IF childKey = entry.value.task
           THEN [ok |-> TRUE, index |-> SlotTask]
         ELSE IF childKey = entry.value.answers
           THEN [ok |-> TRUE, index |-> SlotAnswers]
         ELSE [ok |-> FALSE, index |-> Undefined]

----------------------------------------------------------------------------
(* onCommand tables.  A handler yields [state, success]; success is FALSE  *)
(* for a null result.                                                      *)

Commands == {"insertText", "insertNewElement", "deleteRange", "deleteForward",
             "deleteBackward", "addMultipleChoice", "addParagraph"}

Decline(state) == [state |-> state, success |-> FALSE]
Success(state) == [state |-> state, success |-> ~state.thrown]

\* children.filter((_, i) => i !== index)
FilterOut(children, index) ==
  JsSlice(children, 0, Max(index, 0)) \o
  (IF index < 0 THEN children ELSE JsSliceFrom(children, index + 1))

\* insertText that puts the new text after the rest of the old one
TextInsertText_appending(state, node, startPath, endPath, text) ==
  LET index == First(startPath)
      endIndex == First(endPath)
  IN IF index = Undefined \/ index # endIndex THEN Decline(state)
     ELSE LET prev == Prev(state, node.key)
              u == update(state, node.key, Value(state, prev \o text))
          IN IF u.state.thrown THEN Decline(u.state)
             ELSE Success(setCaret(u.state, Point(node.key, index + Len(text))))

TextInsertText(state, node, startPath, endPath, text) ==
  LET index == First(startPath)
      endIndex == First(endPath)
  IN IF index = Undefined \/ index # endIndex THEN Decline(state)
     ELSE LET prev == Prev(state, node.key)
              u == update(state, node.key,
                          Value(state, JsSlice(prev, 0, index) \o text
                                       \o JsSliceFrom(prev, index)))
          IN IF u.state.thrown THEN Decline(u.state)
             ELSE Success(setCaret(u.state, Point(node.key, index + Len(text))))

TextDeleteRange(state, node, startPath, endPath) ==
  LET start == IF First(startPath) = Undefined THEN 0 ELSE First(startPath)
      end == IF First(endPath) = Undefined THEN Len(node.value) ELSE First(endPath)
  IN IF start = end THEN Decline(state)
     ELSE LET prev == Prev(state, node.key)
              u == update(state, node.key,
                          Value(state, JsSlice(prev, 0, start)
                                       \o JsSliceFrom(prev, end)))
          IN IF u.state.thrown THEN Decline(u.state)
             ELSE Success(setCaret(u.state, Point(node.key, start)))

\* deleteForward that removes the character before the caret
TextDeleteForward_removingBefore(state, node, startPath, endPath) ==
  LET index == First(startPath)
      endIndex == First(endPath)
  IN IF index = Undefined \/ index # endIndex THEN Decline(state)
     ELSE IF index >= Len(node.value) THEN Decline(state)
     ELSE LET prev == Prev(state, node.key)
              u == update(state, node.key,
                          Value(state, JsSlice(prev, 0, Max(index - 1, 0))
                                       \o JsSliceFrom(prev, index)))
          IN IF u.state.thrown THEN Decline(u.state)
             ELSE Success(setCaret(u.state, Point(node.key, index)))

TextDeleteForward(state, node, startPath, endPath) ==
  LET index == First(startPath)
      endIndex == First(endPath)
  IN IF index = Undefined \/ index # endIndex THEN Decline(state)
     ELSE IF index >= Len(node.value) THEN Decline(state)
     ELSE LET prev == Prev(state, node.key)
              u == update(state, node.key,
                          Value(state, JsSlice(prev, 0, index)
                                       \o JsSliceFrom(prev, index + 1)))
          IN IF u.state.thrown THEN Decline(u.state)
             ELSE Success(setCaret(u.state, Point(node.key, index)))

\* deleteBackward that selects the node before it declines at offset 0
TextDeleteBackward_selectingNode(state, node, startPath, endPath) ==
  LET index == First(startPath)
      endIndex == First(endPath)
  IN IF index = Undefined \/ index # endIndex THEN Decline(state)
     ELSE IF index <= 0 THEN Decline(setCaret(state, Point(node.key, Undefined)))
     ELSE LET prev == Prev(state, node.key)
              u == update(state, node.key,
                          Value(state, JsSlice(prev, 0, index - 1)
                                       \o JsSliceFrom(prev, index)))
          IN IF u.state.thrown THEN Decline(u.state)
             ELSE Success(setCaret(u.state, Point(node.key, index - 1)))

TextDeleteBackward(state, node, startPath, endPath) ==
  LET index == First(startPath)
      endIndex == First(endPath)
  IN IF index = Undefined \/ index # endIndex THEN Decline(state)
     ELSE IF index <= 0 THEN Decline(state)
     ELSE LET prev == Prev(state, node.key)
              u == update(state, node.key,
                          Value(state, JsSlice(prev, 0, index - 1)
                                       \o JsSliceFrom(prev, index)))
          IN IF u.state.thrown THEN Decline(u.state)
             ELSE Success(setCaret(u.state, Point(node.key, index - 1)))

\* getHandler(value[i]).split(state, state.getEntry(value[i]), next, parent):
\* getHandler(undefined) and getEntry of a missing key throw
SplitChild(state, value, i, next, newParentKey) ==
  IF At(value, i) = Null \/ ~Has(state, At(value, i)) THEN NoSplit(Throw(state))
  ELSE split(state, getEntry(state, At(value, i)), next, newParentKey)

\* the updater of deleteRange without the branch that creates an empty child
ArrayDeleteRangeUpdater_withoutBackfill(s, node, children, start, end, startNext, l) ==
  LET newChildren == JsSlice(children, 0, start)
                     \o (IF ~l.isNull THEN <<l.left.key>> ELSE <<>>)
                     \o JsSliceFrom(children, end + 1)
  IN IF Len(newChildren) > 0
       THEN IF At(newChildren, start) = Null \/ ~Has(s, At(newChildren, start))
              THEN Value(Throw(s), newChildren)
              ELSE Value(select(s, getEntry(s, At(newChildren, start)), startNext),
                         newChildren)
       ELSE Value(s, newChildren)

\* the updater of deleteRange: (children) => { ... }
ArrayDeleteRangeUpdater(s, node, children, start, end, startNext, l) ==
  LET newChildren == JsSlice(children, 0, start)
                     \o (IF ~l.isNull THEN <<l.left.key>> ELSE <<>>)
                     \o JsSliceFrom(children, end + 1)
  IN IF Len(newChildren) > 0
       THEN IF At(newChildren, start) = Null \/ ~Has(s, At(newChildren, start))
              THEN Value(Throw(s), newChildren)
              ELSE Value(select(s, getEntry(s, At(newChildren, start)), startNext),
                         newChildren)
       ELSE LET newChild == createEmpty(s, "paragraph", node.key)
            IN IF newChild.state.thrown THEN Value(newChild.state, <<>>)
               ELSE Value(selectStart(newChild.state, newChild.entry),
                          <<newChild.entry.key>>)

ArrayDeleteRange(state, node, startPath, endPath) ==
  LET startIndex == First(startPath)
      endIndex == First(endPath)
      startNext == Rest(startPath)
      endNext == Rest(endPath)
      value == node.value
      start == IF startIndex = Undefined THEN 0 ELSE startIndex
      end == IF endIndex = Undefined THEN Len(value) ELSE endIndex
  IN IF start = end THEN Decline(state)
     ELSE
       Let(SplitChild(state, value, start, startNext, Null), LAMBDA l :
       IF l.state.thrown THEN Decline(l.state)
       ELSE
         Let(SplitChild(l.state, value, end, endNext, Null), LAMBDA r :
         IF r.state.thrown THEN Decline(r.state)
         ELSE
           Let(IF ~l.isNull /\ ~r.isNull /\ l.left.type = r.right.type
                 THEN merge(r.state, l.left, r.right).state
                 ELSE r.state,
               LAMBDA m :
                 IF m.thrown THEN Decline(m)
                 ELSE Success(update(m, node.key,
                                     ArrayDeleteRangeUpdater(
                                       m, node, Prev(m, node.key), start, end,
                                       startNext, l)).state))))

\* insertNewElement that splices the new child in twice
ArrayInsertNewElement_twice(state, node, startPath, endPath) ==
  LET index == First(startPath)
      next == Rest(startPath)
      endIndex == First(endPath)
      value == node.value
  IN IF index = Undefined \/ index # endIndex THEN Decline(state)
     ELSE
       Let(SplitChild(state, value, index, next, node.key), LAMBDA sp :
       IF sp.state.thrown THEN Decline(sp.state)
       ELSE
         Let(IF ~sp.isNull THEN [state |-> sp.state, entry |-> sp.right]
             ELSE createEmpty(sp.state, childHandler(node.type), node.key),
             LAMBDA newChild :
         Let(IF newChild.state.thrown THEN newChild.state
             ELSE selectStart(newChild.state, newChild.entry),
             LAMBDA sel :
               IF sel.thrown THEN Decline(sel)
               ELSE Success(update(sel, node.key,
                                   Value(sel,
                                         JsSlice(Prev(sel, node.key), 0, index + 1)
                                         \o <<newChild.entry.key, newChild.entry.key>>
                                         \o JsSliceFrom(Prev(sel, node.key),
                                                        index + 1))).state))))

ArrayInsertNewElement(state, node, startPath, endPath) ==
  LET index == First(startPath)
      next == Rest(startPath)
      endIndex == First(endPath)
      value == node.value
  IN IF index = Undefined \/ index # endIndex THEN Decline(state)
     ELSE
       Let(SplitChild(state, value, index, next, node.key), LAMBDA sp :
       IF sp.state.thrown THEN Decline(sp.state)
       ELSE
         Let(IF ~sp.isNull THEN [state |-> sp.state, entry |-> sp.right]
             ELSE createEmpty(sp.state, childHandler(node.type), node.key),
             LAMBDA newChild :
         Let(IF newChild.state.thrown THEN newChild.state
             ELSE selectStart(newChild.state, newChild.entry),
             LAMBDA sel :
               IF sel.thrown THEN Decline(sel)
               ELSE Success(update(sel, node.key,
                                   Value(sel,
                                         JsSlice(Prev(sel, node.key), 0, index + 1)
                                         \o <<newChild.entry.key>>
                                         \o JsSliceFrom(Prev(sel, node.key),
                                                        index + 1))).state))))

ArrayDeleteForward(state, node, startPath, endPath) ==
  LET index == First(startPath)
      endIndex == First(endPath)
      value == node.value
  IN IF index = Undefined \/ index # endIndex THEN Decline(state)
     ELSE IF Len(value) <= 1 \/ index >= Len(value) THEN Decline(state)
     ELSE IF At(value, index) = Null \/ ~Has(state, At(value, index))
             \/ At(value, index + 1) = Null \/ ~Has(state, At(value, index + 1))
       THEN Decline(Throw(state))
     ELSE
       LET currentChild == getEntry(state, At(value, index))
           nextChild == getEntry(state, At(value, index + 1))
       IN Let(IF currentChild.type = nextChild.type
                THEN merge(state, currentChild, nextChild).state
                ELSE state,
              LAMBDA m :
                IF m.thrown THEN Decline(m)
                ELSE Success(update(m, node.key,
                                    Value(m, FilterOut(Prev(m, node.key),
                                                       index + 1))).state))

\* array deleteBackward that removes the child without merging it
ArrayDeleteBackward_withoutMerge(state, node, startPath, endPath) ==
  LET index == First(startPath)
      endIndex == First(endPath)
      value == node.value
  IN IF index = Undefined \/ index # endIndex THEN Decline(state)
     ELSE IF Len(value) <= 1 \/ index <= 0 THEN Decline(state)
     ELSE Success(update(state, node.key,
                         Value(state, FilterOut(Prev(state, node.key), index))).state)

ArrayDeleteBackward(state, node, startPath, endPath) ==
  LET index == First(startPath)
      endIndex == First(endPath)
      value == node.value
  IN IF index = Undefined \/ index # endIndex THEN Decline(state)
     ELSE IF Len(value) <= 1 \/ index <= 0 THEN Decline(state)
     ELSE IF At(value, index) = Null \/ ~Has(state, At(value, index))
             \/ At(value, index - 1) = Null \/ ~Has(state, At(value, index - 1))
       THEN Decline(Throw(state))
     ELSE
       LET currentChild == getEntry(state, At(value, index))
           previousChild == getEntry(state, At(value, index - 1))
       IN Let(selectEnd(state, previousChild), LAMBDA sel :
          Let(IF sel.thrown THEN sel
              ELSE IF previousChild.type = currentChild.type
                THEN merge(sel, previousChild, currentChild).state
                ELSE sel,
              LAMBDA m :
                IF m.thrown THEN Decline(m)
                ELSE Success(update(m, node.key,
                                    Value(m, FilterOut(Prev(m, node.key),
                                                       index))).state)))

\* the command tables with an empty one for multipleChoice
HasCommand_withoutMultipleChoice(type, command) ==
  \/ type = "text" /\ command \in {"insertText", "deleteRange", "deleteForward",
                                   "deleteBackward"}
  \/ type \in ArrayTypes /\ command \in {"deleteRange", "insertNewElement",
                                         "deleteForward", "deleteBackward"}

\* getHandler(type).onCommand[command] != null
HasCommand(type, command) ==
  \/ type = "text" /\ command \in {"insertText", "deleteRange", "deleteForward",
                                   "deleteBackward"}
  \/ type \in ArrayTypes /\ command \in {"deleteRange", "insertNewElement",
                                         "deleteForward", "deleteBackward"}
  \/ type = "multipleChoice" /\ command \in {"deleteBackward", "deleteForward"}

\* getHandler(node.type).onCommand[command]?.(state, node, start, end, ...payload)
onCommand(state, node, command, startPath, endPath, payload) ==
  IF ~HasCommand(node.type, command) THEN Decline(state)
  ELSE CASE node.type = "text" /\ command = "insertText" ->
              TextInsertText(state, node, startPath, endPath, payload)
         [] node.type = "text" /\ command = "deleteRange" ->
              TextDeleteRange(state, node, startPath, endPath)
         [] node.type = "text" /\ command = "deleteForward" ->
              TextDeleteForward(state, node, startPath, endPath)
         [] node.type = "text" /\ command = "deleteBackward" ->
              TextDeleteBackward(state, node, startPath, endPath)
         [] node.type \in ArrayTypes /\ command = "deleteRange" ->
              ArrayDeleteRange(state, node, startPath, endPath)
         [] node.type \in ArrayTypes /\ command = "insertNewElement" ->
              ArrayInsertNewElement(state, node, startPath, endPath)
         [] node.type \in ArrayTypes /\ command = "deleteForward" ->
              ArrayDeleteForward(state, node, startPath, endPath)
         [] node.type \in ArrayTypes /\ command = "deleteBackward" ->
              ArrayDeleteBackward(state, node, startPath, endPath)
         [] node.type = "multipleChoice" -> Success(state)

----------------------------------------------------------------------------
(* Path resolution and the StateManager *)

rootKey == Key(0, "root")

Frame(entry, index) == [entry |-> entry, index |-> index]

RECURSIVE PathLoop(_, _)

\* while (path[0].entry.parent != null) { ... path.unshift({ entry: parent, index }) }
PathLoop(state, path) ==
  LET first == path[1].entry IN
  IF first.parent = Null THEN [ok |-> TRUE, path |-> path]
  ELSE IF ~Has(state, first.parent) THEN [ok |-> FALSE, path |-> path]
  ELSE LET parent == getEntry(state, first.parent)
           i == getIndexWithin(parent, first.key)
       IN IF ~i.ok THEN [ok |-> FALSE, path |-> path]
          ELSE PathLoop(state, <<Frame(parent, i.index)>> \o path)

\* getPathToRoot that leaves the character offset out of the point's frame
getPathToRoot_withoutOffset(state, point) ==
  IF ~Has(state, point.key) THEN [ok |-> FALSE, path |-> <<>>]
  ELSE PathLoop(state, <<Frame(getEntry(state, point.key), Undefined)>>)

\* getPathToRoot yields [ok, path]; ok is FALSE when it throws
getPathToRoot(state, point) ==
  IF ~Has(state, point.key) THEN [ok |-> FALSE, path |-> <<>>]
  ELSE PathLoop(state, <<Frame(getEntry(state, point.key), point.index)>>)

\* takeWhile(zip(startPath, endPath), ([a, b]) => a.entry.key === b.entry.key):
\* zip pads the shorter path with undefined, and reading .entry of it throws
CommonPath(startPath, endPath) ==
  LET n == Min(Len(startPath), Len(endPath))
      differ == {i \in 1..n : startPath[i].entry.key # endPath[i].entry.key}
  IN IF differ # {}
       THEN LET k == CHOOSE i \in differ : \A j \in differ : i <= j
            IN [ok |-> TRUE, path |-> SubSeq(startPath, 1, k - 1)]
       ELSE IF Len(startPath) = Len(endPath)
         THEN [ok |-> TRUE, path |-> startPath]
         ELSE [ok |-> FALSE, path |-> <<>>]

\* the index path taken from below the common path: path.slice(commonPath.length)
IndexPathFrom_belowCommonPath(path, commonLength) ==
  [i \in 1..(Len(path) - commonLength) |-> path[commonLength + i].index]

\* path.slice(Math.max(commonPath.length - 1, 0)).map(({ index }) => index)
IndexPathFrom(path, commonLength) ==
  LET from == Max(commonLength - 1, 0)
  IN [i \in 1..(Len(path) - from) |-> path[from + i].index]

Result(state, result) == [state |-> state, result |-> result]

Tried(state, command, node, startIndex, endIndex, r) ==
  [(IF HasCommand(node.type, command) /\ ~r.success /\ ~r.state.thrown
      THEN Declined(state, r.state, "onCommand", node.key)
      ELSE r.state)
   EXCEPT !.tried = Append(@, [command |-> command, key |-> node.key,
                                       start |-> startIndex, end |-> endIndex,
                                       handled |-> HasCommand(node.type, command),
                                       success |-> r.success,
                                       depth |-> state.updateCallDepth])]

RECURSIVE Bubble(_, _, _, _, _, _, _)

\* the loop without `startIndex.unshift(...)` and `endIndex.unshift(...)`
Bubble_withoutUnshift(state, command, payload, commonPath, targetNode, startIndex, endIndex) ==
  Let(onCommand(state, targetNode, command, startIndex, endIndex, payload),
      LAMBDA r :
  Let(Tried(state, command, targetNode, startIndex, endIndex, r), LAMBDA s1 :
    IF s1.thrown THEN Result(s1, FALSE)
    ELSE IF r.success THEN Result(s1, TRUE)
    ELSE IF Len(commonPath) = 0 THEN Result(s1, FALSE)
    ELSE LET nextTargetPath == commonPath[Len(commonPath)]
         IN Bubble(s1, command, payload,
                   SubSeq(commonPath, 1, Len(commonPath) - 1),
                   nextTargetPath.entry, startIndex, endIndex)))

\* the while (true) loop of dispatchCommand
Bubble(state, command, payload, commonPath, targetNode, startIndex, endIndex) ==
  Let(onCommand(state, targetNode, command, startIndex, endIndex, payload),
      LAMBDA r :
  Let(Tried(state, command, targetNode, startIndex, endIndex, r), LAMBDA s1 :
    IF s1.thrown THEN Result(s1, FALSE)
    ELSE IF r.success THEN Result(s1, TRUE)
    ELSE IF Len(commonPath) = 0 THEN Result(s1, FALSE)
    ELSE LET nextTargetPath == commonPath[Len(commonPath)]
         IN Bubble(s1, command, payload,
                   SubSeq(commonPath, 1, Len(commonPath) - 1),
                   nextTargetPath.entry,
                   <<nextTargetPath.index>> \o startIndex,
                   <<nextTargetPath.index>> \o endIndex)))

\* dispatchCommand from `const { start, end } = state.cursor` on
\* the resolution without `commonPath.pop()` for the first target
Resolve_withoutPop(state, command, payload) ==
  LET startPath == getPathToRoot(state, state.cursor.start)
      endPath == getPathToRoot(state, state.cursor.end)
  IN IF ~startPath.ok \/ ~endPath.ok THEN Result(Throw(state), FALSE)
     ELSE
       LET commonPath == CommonPath(startPath.path, endPath.path) IN
       IF ~commonPath.ok THEN Result(Throw(state), FALSE)
       ELSE
         LET n == Len(commonPath.path)
             startIndex == IndexPathFrom(startPath.path, n)
             endIndex == IndexPathFrom(endPath.path, n)
             targetNode == IF n > 0 THEN commonPath.path[n].entry
                           ELSE startPath.path[1].entry
         IN Bubble(state, command, payload, commonPath.path,
                   targetNode, startIndex, endIndex)

Resolve(state, command, payload) ==
  LET startPath == getPathToRoot(state, state.cursor.start)
      endPath == getPathToRoot(state, state.cursor.end)
  IN IF ~startPath.ok \/ ~endPath.ok THEN Result(Throw(state), FALSE)
     ELSE
       LET commonPath == CommonPath(startPath.path, endPath.path) IN
       IF ~commonPath.ok THEN Result(Throw(state), FALSE)
       ELSE
         LET n == Len(commonPath.path)
             startIndex == IndexPathFrom(startPath.path, n)
             endIndex == IndexPathFrom(endPath.path, n)
             targetNode == IF n > 0 THEN commonPath.path[n].entry
                           ELSE startPath.path[1].entry
         IN Bubble(state, command, payload,
                   SubSeq(commonPath.path, 1, n - 1),
                   targetNode, startIndex, endIndex)

\* StateManager.update: this.updateCallDepth += 1
beginUpdate(state) == [state EXCEPT !.updateCallDepth = @ + 1]

\* StateManager.update after the increment: r, [state, result], is the result
\* of updateFn on beginUpdate(state); a throw leaves the method at once
managerUpdate(r) ==
  IF r.state.thrown THEN r
  ELSE LET s2 == [r.state EXCEPT !.updateCallDepth = @ - 1]
       IN Result(IF s2.updateCallDepth = 0 THEN incCounter(s2) ELSE s2,
                 r.result)

ParagraphText == <<".", ".", ".">>
TaskText == <<"W", "h", "a", "t", " ", "i", "s", " ", "2", " ", "+", " ", "2", "?">>

Answer(isCorrect, answer) ==
  [type |-> "multipleChoiceAnswer", isCorrect |-> isCorrect, answer |-> answer]

\* const newElement = command === Command.AddParagraph ? ... : ...
newElement(command) ==
  IF command = "addParagraph"
    THEN [type |-> "paragraph", value |-> ParagraphText]
    ELSE [type |-> "multipleChoice",
          task |-> <<[type |-> "paragraph", value |-> TaskText]>>,
          answers |-> <<Answer(FALSE, <<"3">>), Answer(TRUE, <<"4">>),
                        Answer(FALSE, <<"5">>)>>]

\* the update callback of addParagraph / addMultipleChoice
AddElement(state, command) ==
  Let(HandlerInsert(state, newElement(command).type, rootKey, newElement(command)),
      LAMBDA i :
        IF i.state.thrown THEN Result(i.state, FALSE)
        ELSE Result(update(i.state, rootKey,
                           Value(i.state, Append(Prev(i.state, rootKey),
                                                 i.entry.key))).state,
                    TRUE))

RECURSIVE dispatchCommand(_, _, _)

\* the callback that dispatchCommand hands to this.update
\* dispatchCommand without `if (!result) return false`
DispatchBody_ignoringResult(state, command, payload) ==
  Let(IF command \in {"addParagraph", "addMultipleChoice"}
        THEN managerUpdate(AddElement(beginUpdate(state), command)).state
        ELSE state,
      LAMBDA a :
        IF a.thrown THEN Result(a, FALSE)
        ELSE IF a.cursor = NullCursor THEN Result(a, TRUE)
        ELSE
          Let(IF command # "deleteRange" /\ ~isCollapsed(a.cursor)
                THEN dispatchCommand(a, "deleteRange", <<>>)
                ELSE Result(a, TRUE),
              LAMBDA d :
                IF d.state.thrown THEN d
                ELSE IF /\ command \in {"deleteBackward", "deleteForward"}
                        /\ ~isCollapsed(a.cursor)
                  THEN Result(d.state, TRUE)
                ELSE Resolve(d.state, command, payload)))

\* dispatchCommand without the `return true` that ends deleteBackward and
\* deleteForward after the nested deleteRange
DispatchBody_withoutEarlyReturn(state, command, payload) ==
  Let(IF command \in {"addParagraph", "addMultipleChoice"}
        THEN managerUpdate(AddElement(beginUpdate(state), command)).state
        ELSE state,
      LAMBDA a :
        IF a.thrown THEN Result(a, FALSE)
        ELSE IF a.cursor = NullCursor THEN Result(a, TRUE)
        ELSE
          Let(IF command # "deleteRange" /\ ~isCollapsed(a.cursor)
                THEN dispatchCommand(a, "deleteRange", <<>>)
                ELSE Result(a, TRUE),
              LAMBDA d :
                IF d.state.thrown THEN d
                ELSE IF ~d.result THEN Result(d.state, FALSE)
                ELSE Resolve(d.state, command, payload)))

DispatchBody(state, command, payload) ==
  Let(IF command \in {"addParagraph", "addMultipleChoice"}
        THEN managerUpdate(AddElement(beginUpdate(state), command)).state
        ELSE state,
      LAMBDA a :
        IF a.thrown THEN Result(a, FALSE)
        ELSE IF a.cursor = NullCursor THEN Result(a, TRUE)
        ELSE
          Let(IF command # "deleteRange" /\ ~isCollapsed(a.cursor)
                THEN dispatchCommand(a, "deleteRange", <<>>)
                ELSE Result(a, TRUE),
              LAMBDA d :
                IF d.state.thrown THEN d
                ELSE IF ~d.result THEN Result(d.state, FALSE)
                ELSE IF /\ command \in {"deleteBackward", "deleteForward"}
                        /\ ~isCollapsed(a.cursor)
                  THEN Result(d.state, TRUE)
                ELSE Resolve(d.state, command, payload)))

dispatchCommand(state, command, payload) ==
  managerUpdate(DispatchBody(beginUpdate([state EXCEPT !.dispatches = @ + 1]),
                             command, payload))

----------------------------------------------------------------------------
(* The state machine *)

Paragraph(text) == [type |-> "paragraph", value |-> text]

\* the documents a StateManager is constructed with
InitialContents ==
  { <<Paragraph(<<"a", "b">>), Paragraph(<<"c">>)>>,
    <<Paragraph(<<"a", "b">>), Paragraph(<<>>), Paragraph(<<"c">>)>>,
    <<Paragraph(<<"a">>),
      [type |-> "multipleChoice",
       task |-> <<Paragraph(<<"b">>)>>,
       answers |-> <<Answer(TRUE, <<"c">>), Answer(FALSE, <<"d">>)>>]>> }

\* the payloads of insertText
Texts == { <<"x">>, <<"y", "z">> }

Heap ==
  [entries |-> entries, cursor |-> cursor, counter |-> counter,
   lastKey |-> lastKey, updateCallDepth |-> updateCallDepth,
   lastUpdateCount |-> lastUpdateCount, listener |-> listener,
   notified |-> notified, thrown |-> FALSE, tried |-> <<>>,
   keys |-> <<>>, mutations |-> 0, notifiedAt |-> <<>>,
   nulls |-> <<>>, dispatches |-> 0, overwritten |-> <<>>]

Install(state) ==
  /\ entries' = state.entries
  /\ cursor' = state.cursor
  /\ counter' = state.counter
  /\ lastKey' = state.lastKey
  /\ updateCallDepth' = state.updateCallDepth
  /\ lastUpdateCount' = state.lastUpdateCount
  /\ listener' = state.listener
  /\ notified' = state.notified
  /\ network' = network

\* new WritableState() on a fresh Y.Map, before the constructor of StateManager
EmptyState ==
  [entries |-> <<>>, cursor |-> NullCursor, counter |-> 0, lastKey |-> -1,
   updateCallDepth |-> 0, lastUpdateCount |-> 0, listener |-> 0,
   notified |-> 0, thrown |-> FALSE, tried |-> <<>>,
   keys |-> <<>>, mutations |-> 0, notifiedAt |-> <<>>,
   nulls |-> <<>>, dispatches |-> 0, overwritten |-> <<>>]

\* new StateManager('root', initial) followed by addUpdateListener (useStateManager)
Constructed(initial) ==
  LET s == HandlerInsert(EmptyState, "root", Null, initial).state
  IN [s EXCEPT !.lastUpdateCount = s.counter, !.listener = 1]

ResultOf(r) == IF r.state.thrown THEN "thrown" ELSE IF r.result THEN "true" ELSE "false"

\* what is recorded of an outermost call: its command and result, the handlers
\* it tried, the sequence numbers it generated, the number of its store
\* mutations, the update call depth at each invocation of the listener, and
\* the handler operations that returned null, the number of
\* dispatchCommand calls, and the keys at which an insert replaced an entry
Call(command, payload, r) ==
  [command |-> command, payload |-> payload, result |-> ResultOf(r),
   tried |-> r.state.tried, keys |-> r.state.keys,
   mutations |-> r.state.mutations, notifiedAt |-> r.state.notifiedAt,
   nulls |-> r.state.nulls, dispatches |-> r.state.dispatches,
   overwritten |-> r.state.overwritten]

NoCall ==
  [command |-> "none", payload |-> <<>>, result |-> "none", tried |-> <<>>,
   keys |-> <<>>, mutations |-> 0, notifiedAt |-> <<>>, nulls |-> <<>>,
   dispatches |-> 0, overwritten |-> <<>>]

Init ==
  \E initial \in InitialContents :
    LET s == Constructed(initial) IN
      /\ entries = s.entries
      /\ cursor = s.cursor
      /\ counter = s.counter
      /\ lastKey = s.lastKey
      /\ updateCallDepth = s.updateCallDepth
      /\ lastUpdateCount = s.lastUpdateCount
      /\ listener = s.listener
      /\ notified = s.notified
      /\ call = NoCall
      /\ steps = 0
      /\ network = <<>>

\* the keys held by an entry's value
ChildKeys(entry) ==
  CASE entry.type \in ArrayTypes -> {entry.value[i] : i \in 1..Len(entry.value)}
    [] entry.type = "paragraph" -> {entry.value}
    [] entry.type = "multipleChoice" -> {entry.value.task, entry.value.answers}
    [] entry.type = "multipleChoiceAnswer" -> {entry.value.isCorrect, entry.value.answer}
    [] OTHER -> {}

RECURSIVE ReachFrom(_, _, _)
ReachFrom(es, frontier, seen) ==
  IF frontier = {} THEN seen
  ELSE LET next == UNION {ChildKeys(es[k]) : k \in frontier} \cap DOMAIN es
       IN ReachFrom(es, next \ (seen \cup frontier), seen \cup frontier)

\* the keys of the entries rendered by manager.render()
Reachable(es) == IF rootKey \in DOMAIN es THEN ReachFrom(es, {rootKey}, {}) ELSE {}

\* getPoint: a text element gives { key, index: offset }, any other { key }
Points(es) ==
  UNION {IF es[k].type = "text"
           THEN {Point(k, i) : i \in 0..Len(es[k].value)}
           ELSE {Point(k, Undefined)} : k \in Reachable(es)}

Cursors(es) == {[start |-> a, end |-> b] : a, b \in Points(es)}

\* the store after an outermost call and what is recorded of the call
Return(command, payload, r) ==
  /\ Install(r.state)
  /\ call' = Call(command, payload, r)

\* manager.update((state) => state.setCursor(cursor))
SetCursor(c) ==
  /\ c # cursor
  /\ Return("setCursor", <<>>,
            managerUpdate(Result(setCursor(beginUpdate(Heap), c), TRUE)))
  /\ steps' = steps

\* manager.dispatchCommand(command, ...payload)
Dispatch(command, payload) ==
  /\ Return(command, payload, dispatchCommand(Heap, command, payload))
  /\ steps' = steps + 1

InsertText ==
  /\ steps < MaxCommands
  /\ \E text \in Texts : Dispatch("insertText", text)

InsertNewElement ==
  /\ steps < MaxCommands
  /\ Dispatch("insertNewElement", <<>>)

DeleteRange ==
  /\ steps < MaxCommands
  /\ Dispatch("deleteRange", <<>>)

DeleteForward ==
  /\ steps < MaxCommands
  /\ Dispatch("deleteForward", <<>>)

DeleteBackward ==
  /\ steps < MaxCommands
  /\ Dispatch("deleteBackward", <<>>)

AddParagraph ==
  /\ steps < MaxCommands
  /\ Dispatch("addParagraph", <<>>)

AddMultipleChoice ==
  /\ steps < MaxCommands
  /\ Dispatch("addMultipleChoice", <<>>)

\* the selections of part of one text
RangesInText(es) ==
  {c \in Cursors(es) : /\ c.start.key = c.end.key
                       /\ es[c.start.key].type = "text"
                       /\ c.start.index < c.end.index}

\* the selectionchange listener: the selection is placed on the loaded
\* document, and inside a text after a command has thrown; the other cursors
\* are those the commands leave
SelectionChange ==
  \/ /\ call.command = "none"
     /\ \E c \in Cursors(entries) \cup {NullCursor} : SetCursor(c)
  \/ /\ call.result = "thrown"
     /\ steps < MaxCommands
     /\ \E c \in RangesInText(entries) : SetCursor(c)

Next ==
  \/ SelectionChange
  \/ InsertText
  \/ InsertNewElement
  \/ DeleteRange
  \/ DeleteForward
  \/ DeleteBackward
  \/ AddParagraph
  \/ AddMultipleChoice

Spec == Init /\ [][Next]_vars

----------------------------------------------------------------------------
(* Inserting external values into a fresh store and reading them back *)

SeqsUpTo2(S) == {<<>>} \cup {<<x>> : x \in S} \cup {<<x, y>> : x, y \in S}

\* JSONValue<T>: the external values of each node type
ExternalValues(type) ==
  LET texts == {<<>>, <<"a">>, <<"a", "b">>}
      paragraphs == {Paragraph(<<>>), Paragraph(<<"a", "b">>)}
      answers == {Answer(TRUE, <<>>), Answer(FALSE, <<"a">>)}
      multipleChoices ==
        {[type |-> "multipleChoice", task |-> t, answers |-> a] :
           t \in {<<>>, <<Paragraph(<<"a">>), Paragraph(<<>>)>>},
           a \in {<<Answer(FALSE, <<"a">>)>>,
                  <<Answer(TRUE, <<>>), Answer(FALSE, <<"b">>)>>}}
  IN CASE type = "text" -> texts
       [] type = "boolean" -> BOOLEAN
       [] type = "paragraph" -> {Paragraph(t) : t \in texts}
       [] type = "content" -> SeqsUpTo2(paragraphs)
       [] type = "multipleChoiceAnswer" -> answers
       [] type = "multipleChoiceAnswers" -> SeqsUpTo2(answers)
       [] type = "multipleChoice" -> multipleChoices
       [] type = "root" ->
            SeqsUpTo2({Paragraph(<<"a">>)}
                      \cup {m \in multipleChoices : Len(m.task) = 2})

\* new WritableState() on a fresh Y.Map
InitEmpty ==
  /\ entries = EmptyState.entries
  /\ cursor = EmptyState.cursor
  /\ counter = EmptyState.counter
  /\ lastKey = EmptyState.lastKey
  /\ updateCallDepth = EmptyState.updateCallDepth
  /\ lastUpdateCount = EmptyState.lastUpdateCount
  /\ listener = EmptyState.listener
  /\ notified = EmptyState.notified
  /\ call = NoCall
  /\ steps = 0
  /\ network = <<>>

\* the store after insert, and what read gives for the inserted entry
InsertReturn(type, v, r) ==
  /\ Install(r.state)
  /\ call' = [command |-> "insert", type |-> type, payload |-> v,
              key |-> r.entry.key, read |-> read(r.state, type, r.entry.key)]

\* getHandler(type).insert(state, null, v) followed by
\* getHandler(type).read(state, key)
InsertValue ==
  /\ steps < MaxInserts
  /\ \E type \in nodeTypes :
       \E v \in ExternalValues(type) :
         InsertReturn(type, v, HandlerInsert(Heap, type, Null, v))
  /\ steps' = steps + 1

SpecInsert == InitEmpty /\ [][InsertValue]_vars

\* C4: for every external value v of every node type, nested ones included,
\* reading back the entry created by insert gives a value equal to v
C4_ReadAfterInsert ==
  call.command = "insert" => call.read.ok /\ call.read.value = call.payload

\* a root holding a paragraph and a multiple choice exercise, with its task
\* and its answers, was inserted into a store that already held entries, and
\* read back
C4_Witness ==
  /\ call.command = "insert"
  /\ call.type = "root"
  /\ call.key[1] > 0
  /\ Len(call.payload) = 2
  /\ call.payload[1].type = "paragraph"
  /\ call.payload[2].type = "multipleChoice"
  /\ Len(call.payload[2].answers) = 2
  /\ call.read.ok
  /\ call.read.value[2].answers[2].answer = <<"b">>

----------------------------------------------------------------------------
(* Tree structure of the store *)

\* the entries whose value contains key
Owners(es, key) == {p \in DOMAIN es : key \in ChildKeys(es[p])}

\* the entry's parent field names a stored entry whose value contains its key
OwnedByParent(es, key) ==
  /\ es[key].parent \in DOMAIN es
  /\ key \in ChildKeys(es[es[key].parent])

\* the sequence numbers in a sequence of generated keys
Range(seq) == {seq[i] : i \in 1..Len(seq)}

\* C1 as stated: after any sequence of dispatched commands, every non-root
\* entry of the store has a parent key that refers to an existing entry whose
\* value contains that entry's key, and no entry's key is contained in the
\* value of more than one entry
C1_EveryEntryOwned ==
  /\ \A k \in DOMAIN entries : k # rootKey => OwnedByParent(entries, k)
  /\ \A k \in DOMAIN entries : Cardinality(Owners(entries, k)) <= 1

\* C1 (amended): after any sequence of dispatched commands, every non-root
\* entry reachable from the root has a parent key that refers to an existing
\* entry whose value contains that entry's key, and no entry's key is
\* contained in the value of more than one entry; an entry that a command
\* dropped from its parent's value stays in the store
C1_ReachableOwned ==
  /\ \A k \in Reachable(entries) : k # rootKey => OwnedByParent(entries, k)
  /\ \A k \in DOMAIN entries : Cardinality(Owners(entries, k)) <= 1

\* a command has succeeded at the root array and has left an entry in the
\* store that is no longer reachable from the root
C1_Witness ==
  /\ call.result = "true"
  /\ call.command \in {"deleteRange", "deleteForward", "deleteBackward"}
  /\ Len(call.tried) > 0
  /\ call.tried[Len(call.tried)].key = rootKey
  /\ DOMAIN entries \ Reachable(entries) # {}

----------------------------------------------------------------------------
(* Keys *)

\* C2: no two stored entries share a sequence number, whatever their kinds;
\* every stored entry sits under its own key; the sequence numbers generated
\* by a call are strictly increasing, each greater than every number
\* generated before the call, also when an insert is nested in a createValue
\* callback or its createValue aborts
C2_FreshKeys ==
  /\ [](/\ \A k1, k2 \in DOMAIN entries : k1[1] = k2[1] => k1 = k2
        /\ \A k \in DOMAIN entries : entries[k].key = k /\ k[1] <= lastKey)
  /\ [][/\ \A i \in 1..Len(call'.keys) : call'.keys[i] > lastKey
        /\ \A i, j \in 1..Len(call'.keys) : i < j => call'.keys[i] < call'.keys[j]
        /\ \A n \in Range(call'.keys) : \A k \in DOMAIN entries : k[1] # n
        /\ \A k \in DOMAIN entries' \ DOMAIN entries : k[1] \in Range(call'.keys)
        /\ lastKey' = lastKey + Len(call'.keys)]_vars

\* a call has inserted entries of several kinds, one nested in the createValue
\* of another, and one of its inserts was aborted: a number was generated that
\* no stored entry carries
C2_Witness ==
  /\ call.result = "true"
  /\ Len(call.keys) >= 3
  /\ \E n \in Range(call.keys) : \A k \in DOMAIN entries : k[1] # n
  /\ \E k1, k2 \in DOMAIN entries :
       /\ {k1[1], k2[1]} \subseteq Range(call.keys)
       /\ k1[2] # k2[2]
       /\ entries[k2].parent = k1

----------------------------------------------------------------------------
(* Arrays of children *)

\* C3: starting from a document in which every array of children has at
\* least one child, after any sequence of dispatched commands every array of
\* children reachable from the root has at least one child
C3_ArraysNonEmpty ==
  \A k \in Reachable(entries) :
    entries[k].type \in ArrayTypes => Len(entries[k].value) >= 1

\* deleteRange at the root has removed every child and the root holds the one
\* empty paragraph created in their place
C3_Witness ==
  /\ call.command = "deleteRange"
  /\ call.result = "true"
  /\ Len(entries[rootKey].value) = 1
  /\ entries[rootKey].value[1][1] \in Range(call.keys)
  /\ entries[rootKey].value[1][2] = "paragraph"
  /\ entries[entries[entries[rootKey].value[1]].value].value = <<>>

----------------------------------------------------------------------------
(* Command dispatch *)

\* a step of the named command
DispatchStep(command) == steps' = steps + 1 /\ call'.command = command

\* the keys from key up to the root, along the parent fields
RECURSIVE ChainToRoot(_, _)
ChainToRoot(es, key) ==
  IF es[key].parent = Null \/ es[key].parent \notin DOMAIN es THEN <<key>>
  ELSE <<key>> \o ChainToRoot(es, es[key].parent)

\* the deepest entry that has both keys in its subtree
LowestCommonAncestor(es, a, b) ==
  LET ca == ChainToRoot(es, a)
      cb == ChainToRoot(es, b)
      common == {i \in 1..Len(ca) : ca[i] \in Range(cb)}
  IN ca[CHOOSE i \in common : \A j \in common : i <= j]

\* the indices that lead from the entry `from` down to the point
RECURSIVE IndexPathTo(_, _, _, _)
IndexPathTo(es, from, key, acc) ==
  IF key = from \/ es[key].parent \notin DOMAIN es THEN acc
  ELSE IndexPathTo(es, from, es[key].parent,
                   <<getIndexWithin(es[es[key].parent], key).index>> \o acc)

\* the handlers a call tried for its own command, in order
OwnTries(c) == SelectSeq(c.tried, LAMBDA t : t.command = c.command)

TextOf(es, key) == es[es[key].value].value

\* C6: for an array of n >= 2 paragraphs (n different entries, all of type
\* paragraph) and a cursor collapsed at offset 0
\* of the text of paragraph k (1 <= k < n), deleteBackward is declined by the
\* text and handled by the array: afterwards the array has n - 1 children,
\* paragraph k - 1 holds its old text followed by the old text of paragraph
\* k, paragraph k is no longer a child, and all other children keep their
\* order and content
C6_DeleteBackwardMerges ==
  [][\A a \in Reachable(entries) :
       (/\ DispatchStep("deleteBackward")
        /\ entries[a].type \in ArrayTypes
        /\ Len(entries[a].value) >= 2
        /\ Cardinality(Range(entries[a].value)) = Len(entries[a].value)
        /\ \A i \in 1..Len(entries[a].value) :
             parseType(entries[a].value[i]) = "paragraph")
       => \A k \in 1..(Len(entries[a].value) - 1) :
            cursor = Caret(Point(entries[entries[a].value[k + 1]].value, 0))
            => LET old == entries[a].value
                   new == entries'[a].value
                   T == call'.tried
               IN /\ call'.result = "true"
                  /\ T[1].key = entries[old[k + 1]].value
                  /\ T[1].handled /\ ~T[1].success
                  /\ T[Len(T)].key = a /\ T[Len(T)].success
                  /\ \A i \in 2..(Len(T) - 1) : ~T[i].handled
                  /\ Len(new) = Len(old) - 1
                  /\ new = SubSeq(old, 1, k) \o SubSeq(old, k + 2, Len(old))
                  /\ old[k + 1] \notin Range(new)
                  /\ TextOf(entries', old[k]) =
                       TextOf(entries, old[k]) \o TextOf(entries, old[k + 1])
                  /\ \A i \in 1..Len(old) :
                       i \notin {k, k + 1}
                       => /\ entries'[old[i]] = entries[old[i]]
                          /\ TextOf(entries', old[i]) = TextOf(entries, old[i])]_vars

\* deleteBackward at offset 0 of the second paragraph has merged its
\* non-empty text into the non-empty text of the first
C6_Witness ==
  /\ call.command = "deleteBackward"
  /\ call.result = "true"
  /\ Len(call.tried) = 3
  /\ call.tried[1].start = <<0>>
  /\ call.tried[3].key = rootKey
  /\ call.tried[3].start = <<1, Undefined, 0>>
  /\ Len(entries[rootKey].value) >= 1
  /\ Len(TextOf(entries, entries[rootKey].value[1])) >= 2
  /\ cursor.start.index >= 1
  /\ cursor.start.index < Len(TextOf(entries, entries[rootKey].value[1]))

\* C7: for every text leaf holding s, every offset 0 <= i <= len(s) and
\* every string t, insertText(t) with the cursor collapsed at (leaf, i)
\* returns true, leaves the leaf holding s[0..i) + t + s[i..], sets a
\* collapsed cursor at (leaf, i + len(t)) and is resolved by the leaf's own
\* handler: no ancestor handler is invoked and no other entry changes
C7_InsertTextAtLeaf ==
  [][\A leaf \in DOMAIN entries :
       (/\ DispatchStep("insertText")
        /\ entries[leaf].type = "text"
        /\ cursor.start.key = leaf
        /\ isCollapsed(cursor)
        /\ cursor.start.index \in 0..Len(entries[leaf].value))
       => LET s == entries[leaf].value
              i == cursor.start.index
              t == call'.payload
          IN /\ call'.result = "true"
             /\ entries'[leaf].value = SubSeq(s, 1, i) \o t \o SubSeq(s, i + 1, Len(s))
             /\ cursor' = Caret(Point(leaf, i + Len(t)))
             /\ Len(call'.tried) = 1
             /\ call'.tried[1].key = leaf
             /\ call'.tried[1].success
             /\ DOMAIN entries' = DOMAIN entries
             /\ \A k \in DOMAIN entries : k # leaf => entries'[k] = entries[k]]_vars

\* two characters were inserted in the middle of a text of two characters
C7_Witness ==
  /\ call.command = "insertText"
  /\ call.result = "true"
  /\ call.payload = <<"y", "z">>
  /\ Len(call.tried) = 1
  /\ call.tried[1].start = <<1>>
  /\ cursor = Caret(Point(call.tried[1].key, 3))
  /\ entries[call.tried[1].key].value = <<"a", "y", "z", "b">>


----------------------------------------------------------------------------
(* Batching of updates *)

\* a step in which an outermost update or dispatchCommand call returns
OutermostCallReturns ==
  /\ steps' # steps \/ call' # call
  /\ call'.result # "thrown"

\* C8: the registered update listeners are invoked exactly once per
\* outermost update or dispatchCommand call, at update call depth zero, and
\* never while a nested call is still active
C8_NotifiedOncePerCall ==
  [][OutermostCallReturns
     => /\ notified' = notified + listener
        /\ call'.notifiedAt = <<0>>]_vars

\* C9: each outermost update or dispatchCommand call increases the update
\* counter by exactly 1, whatever was done inside it
C9_CounterOncePerCall ==
  [][OutermostCallReturns => counter' = counter + 1]_vars

----------------------------------------------------------------------------
(* The nested deleteRange *)

\* the handlers a call tried for the nested deleteRange
RangeTries(c) == SelectSeq(c.tried, LAMBDA t : t.command = "deleteRange")

\* C11: a command other than deleteRange dispatched with a non-collapsed
\* cursor dispatches deleteRange first: every handler tried for deleteRange
\* is tried, one update call deeper, before any handler of the command
\* itself; and if the nested dispatch returns false (no deleteRange handler
\* succeeded), the dispatch returns false and no handler for the original
\* command has been invoked
C11_DeleteRangeFirst ==
  [][(/\ steps' = steps + 1
      /\ call'.command \in Commands \ {"deleteRange"}
      /\ call'.result # "thrown"
      /\ cursor # NullCursor
      /\ ~isCollapsed(cursor))
     => LET T == call'.tried
            R == RangeTries(call')
            n == Len(R)
        IN /\ n >= 1
           /\ SubSeq(T, 1, n) = R
           /\ \A i \in 1..n : R[i].depth = updateCallDepth + 2
           /\ \A i \in (n + 1)..Len(T) :
                T[i].command = call'.command /\ T[i].depth = updateCallDepth + 1
           /\ (\A i \in 1..n : ~R[i].success)
                => call'.result = "false" /\ Len(T) = n]_vars

\* insertText on a range that no deleteRange handler accepts returned false
\* after the deleteRange handlers had been tried up to the root
C11_Witness ==
  /\ call.command = "insertText"
  /\ call.result = "false"
  /\ Len(call.tried) >= 2
  /\ \A i \in 1..Len(call.tried) :
       call.tried[i].command = "deleteRange" /\ ~call.tried[i].success
  /\ call.tried[Len(call.tried)].key = rootKey
  /\ ~isCollapsed(cursor)

\* C12: deleteRange dispatched with a collapsed cursor is declined at every
\* level from the addressed entry up to the root: it returns false and
\* changes no entry
C12_CollapsedDeleteRangeDeclined ==
  [][(/\ DispatchStep("deleteRange")
      /\ cursor # NullCursor
      /\ isCollapsed(cursor))
     => /\ call'.result = "false"
        /\ entries' = entries
        /\ Len(call'.tried) = Len(ChainToRoot(entries, cursor.start.key))
        /\ \A i \in 1..Len(call'.tried) :
             /\ call'.tried[i].key = ChainToRoot(entries, cursor.start.key)[i]
             /\ ~call'.tried[i].success]_vars

----------------------------------------------------------------------------
(* Split and merge of a text leaf *)

\* the texts a leaf can start with
InitialTexts == UNION {[1..n -> {"a", "b"}] : n \in 0..MaxTextLen}

\* a store that holds one text leaf
InitText ==
  \E s \in InitialTexts :
    LET r == HandlerInsert(EmptyState, "text", Null, s) IN
      /\ entries = r.state.entries
      /\ cursor = r.state.cursor
      /\ counter = r.state.counter
      /\ lastKey = r.state.lastKey
      /\ updateCallDepth = r.state.updateCallDepth
      /\ lastUpdateCount = r.state.lastUpdateCount
      /\ listener = r.state.listener
      /\ notified = r.state.notified
      /\ call = [command |-> "none", s |-> s, index |-> 0, ok |-> FALSE,
                 left |-> r.entry.key, right |-> Null]
      /\ steps = 0
      /\ network = <<>>

\* TextHandler.split(state, leaf, [index]) on the leaf that was split last
SplitText ==
  /\ steps < MaxSplits
  /\ call.command \in {"none", "merge"}
  /\ \E index \in 0..Len(entries[call.left].value) :
       LET r == TextSplit(Heap, getEntry(Heap, call.left), <<index>>, Null) IN
         /\ Install(r.state)
         /\ call' = [command |-> "split", s |-> entries[call.left].value,
                     index |-> index, ok |-> ~r.isNull, left |-> call.left,
                     right |-> r.right.key]
  /\ steps' = steps + 1

\* TextHandler.merge(state, left, right) on the two results of the split
MergeText ==
  /\ call.command = "split"
  /\ call.ok
  /\ Install(TextMerge(Heap, getEntry(Heap, call.left),
                       getEntry(Heap, call.right)).state)
  /\ call' = [call EXCEPT !.command = "merge"]
  /\ steps' = steps

NextSplit ==
  \/ SplitText
  \/ MergeText

SpecSplit == InitText /\ [][NextSplit]_vars

\* C13 as stated: for every index 0 <= i <= len(s) the split of a leaf
\* holding s gives a left and a right leaf, and merging them leaves the left
\* leaf holding s
C13_SplitMergeEveryIndex ==
  /\ call.command = "split" => call.ok
  /\ call.command = "merge" => entries[call.left].value = call.s

\* C13: for every index 0 <= i < len(s) the split of a leaf holding s
\* leaves the leaf holding s[0..i) and a new leaf holding s[i..], and merging
\* the two leaves the left leaf holding exactly s; at i = len(s) the split
\* returns null and the leaf still holds s
C13_SplitMergeInverse ==
  /\ call.command = "split"
       => /\ call.ok <=> call.index < Len(call.s)
          /\ call.ok => /\ entries[call.left].value = SubSeq(call.s, 1, call.index)
                        /\ entries[call.right].value =
                             SubSeq(call.s, call.index + 1, Len(call.s))
          /\ ~call.ok => entries[call.left].value = call.s /\ call.right = Null
  /\ call.command = "merge" => entries[call.left].value = call.s

\* the text aba was split after its first character and merged again
C13_Witness ==
  /\ call.command = "merge"
  /\ call.s = <<"a", "b", "a">>
  /\ call.index = 1
  /\ entries[call.left].value = <<"a", "b", "a">>
  /\ entries[call.right].value = <<"b", "a">>

----------------------------------------------------------------------------
(* Declining *)

\* C14: whenever an onCommand handler, a split or a merge returns null, that
\* call has changed no stored entry and has not changed the cursor
C14_DeclineChangesNothing ==
  call.command \in Commands
    => \A i \in 1..Len(call.nulls) : ~call.nulls[i].changed

\* deleteBackward at offset 0 of the text of the second answer: the text
\* handler returned null, and so did the merge of the two answers
C14_Witness ==
  /\ call.command = "deleteBackward"
  /\ call.result = "true"
  /\ \E i, j \in 1..Len(call.nulls) :
       /\ i < j
       /\ call.nulls[i].op = "onCommand"
       /\ parseType(call.nulls[i].key) = "text"
       /\ call.nulls[j].op = "merge"
       /\ parseType(call.nulls[j].key) = "multipleChoiceAnswer"

----------------------------------------------------------------------------
(* Termination of dispatchCommand *)

\* the keys of a sequence of tried handlers
TriedKeys(T) == [i \in 1..Len(T) |-> T[i].key]

\* no key occurs twice
Distinct(seq) == Cardinality(Range(seq)) = Len(seq)

\* C15: every stored entry other than the root has a parent that was
\* generated before it, so the walk of getPathToRoot visits each ancestor
\* once and ends at the root, the entry whose parent is null; and in every
\* dispatchCommand call the loop invokes at most one handler per entry of the
\* chain from its first target to the root, for the command and for the
\* nested deleteRange alike, with at most one nested dispatch, which is a
\* deleteRange under a command that is not deleteRange
C15_DispatchBounded ==
  /\ [](\A k \in DOMAIN entries :
          /\ entries[k].parent = Null <=> k = rootKey
          /\ k # rootKey => /\ entries[k].parent \in DOMAIN entries
                            /\ entries[k].parent[1] < k[1]
          /\ ChainToRoot(entries, k)[Len(ChainToRoot(entries, k))] = rootKey)
  /\ [][(steps' = steps + 1 /\ call'.command \in Commands)
        => LET T == OwnTries(call')
               R == RangeTries(call')
           IN /\ call'.dispatches \in {1, 2}
              /\ call'.dispatches = 2
                   => /\ call'.command # "deleteRange"
                      /\ cursor # NullCursor /\ ~isCollapsed(cursor)
              /\ Len(call'.tried) = Len(T) + (IF call'.command = "deleteRange"
                                              THEN 0 ELSE Len(R))
              /\ Distinct(TriedKeys(T))
              /\ Distinct(TriedKeys(R))
              /\ T # <<>> => /\ Range(TriedKeys(T))
                                 \subseteq Range(ChainToRoot(entries', T[1].key))
                             /\ Len(T) <= Len(ChainToRoot(entries', T[1].key))
              /\ R # <<>> => /\ Range(TriedKeys(R))
                                 \subseteq Range(ChainToRoot(entries', R[1].key))
                             /\ Len(R) <= Len(ChainToRoot(entries', R[1].key))]_vars

\* insertNewElement on a range inside one text: the one nested deleteRange
\* was handled by the text, then the command tried the text, the paragraph
\* and the root
C15_Witness ==
  /\ call.command = "insertNewElement"
  /\ call.result = "true"
  /\ call.dispatches = 2
  /\ Len(RangeTries(call)) = 1
  /\ Len(OwnTries(call)) = 3
  /\ OwnTries(call)[3].key = rootKey

----------------------------------------------------------------------------
(* WritableState.insert *)

\* what createValue returns for a primitive entry: a value or the abort
\* sentinel (isNull; its value field is not looked at)
CreatedValues(type) ==
  IF type = "text"
    THEN {[value |-> <<>>, isNull |-> TRUE]}
         \cup {[value |-> v, isNull |-> FALSE] : v \in {<<>>, <<"a">>}}
    ELSE {[value |-> FALSE, isNull |-> TRUE]}
         \cup {[value |-> v, isNull |-> FALSE] : v \in {FALSE, TRUE}}

\* state.insert({type, parent, createValue: () => created})
StoreInsert ==
  /\ steps < MaxInserts
  /\ \E type \in {"text", "boolean"} :
       \E parent \in {Null, Key(0, "paragraph")} :
         \E created \in CreatedValues(type) :
           LET g == generateKey(Heap, type)
               r == insert(g, type, parent,
                           [state |-> g.state, value |-> created.value,
                            isNull |-> created.isNull])
           IN /\ Install(r.state)
              /\ call' = [command |-> "insert", type |-> type,
                          parent |-> parent, created |-> created,
                          key |-> g.key, returned |-> r.entry,
                          before |-> DOMAIN entries]
  /\ steps' = steps + 1

SpecStore == InitEmpty /\ [][StoreInsert]_vars

\* C16: insert stores no entry under the freshly generated key and returns
\* null exactly when createValue returns the abort sentinel; for every other
\* value, the empty string and false included, it stores the entry
\* {type, key, parent, value} under the key and returns it; the entries
\* stored before stay as they are
C16_InsertAbortsOnSentinel ==
  call.command = "insert"
    => /\ call.key \notin call.before
       /\ call.created.isNull
            => /\ IsNull(call.returned)
               /\ DOMAIN entries = call.before
       /\ ~call.created.isNull
            => /\ ~IsNull(call.returned)
               /\ DOMAIN entries = call.before \cup {call.key}
               /\ entries[call.key] = call.returned
               /\ call.returned.type = call.type
               /\ call.returned.key = call.key
               /\ call.returned.parent = call.parent
               /\ call.returned.value = call.created.value

\* false was stored after an insert whose createValue gave the sentinel
C16_Witness ==
  /\ call.command = "insert"
  /\ call.type = "boolean"
  /\ ~call.created.isNull
  /\ call.created.value = FALSE
  /\ call.key = Key(1, "boolean")
  /\ entries[call.key].value = FALSE
  /\ DOMAIN entries = {call.key}

----------------------------------------------------------------------------
(* addParagraph and addMultipleChoice *)

\* the type of the element a command adds
AddedType(command) ==
  IF command = "addParagraph" THEN "paragraph" ELSE "multipleChoice"

\* C17: addParagraph and addMultipleChoice append exactly one new child at
\* the end of the root's child list and, for every cursor (null, collapsed or
\* a range), change no pre-existing entry other than the root's child list
\* and leave the cursor unchanged
C17_AddOnlyAppends ==
  [][(/\ steps' = steps + 1
      /\ call'.command \in {"addParagraph", "addMultipleChoice"}
      /\ call'.result # "thrown")
     => LET old == entries[rootKey].value
            new == entries'[rootKey].value
        IN /\ Len(new) = Len(old) + 1
           /\ SubSeq(new, 1, Len(old)) = old
           /\ new[Len(new)] \notin DOMAIN entries
           /\ parseType(new[Len(new)]) = AddedType(call'.command)
           /\ \A k \in DOMAIN entries \ {rootKey} : entries'[k] = entries[k]
           /\ cursor' = cursor]_vars

----------------------------------------------------------------------------
(* deleteRange across paragraphs *)

\* the array `a` holds different paragraphs only
ArrayOfParagraphs(es, a) ==
  /\ es[a].type \in ArrayTypes
  /\ Distinct(es[a].value)
  /\ \A i \in 1..Len(es[a].value) : parseType(es[a].value[i]) = "paragraph"

\* C18: for an array of paragraphs and a cursor from offset a of the text of
\* paragraph i to offset b of the text of paragraph j with i < j,
\* 0 <= a <= len(s_i) and 0 <= b <= len(s_j), deleteRange leaves the array as
\* the children before i, one paragraph holding s_i[0..a) + s_j[b..], and
\* the children after j, and sets a collapsed cursor at offset a of that
\* paragraph's text
C18_DeleteRangeAcrossParagraphs ==
  [][\A arr \in Reachable(entries) :
       (DispatchStep("deleteRange") /\ ArrayOfParagraphs(entries, arr))
       => \A i, j \in 1..Len(entries[arr].value) :
            (/\ i < j
             /\ cursor.start.key = entries[entries[arr].value[i]].value
             /\ cursor.end.key = entries[entries[arr].value[j]].value
             /\ cursor.start.index \in 0..Len(TextOf(entries, entries[arr].value[i]))
             /\ cursor.end.index \in 0..Len(TextOf(entries, entries[arr].value[j])))
            => LET old == entries[arr].value
                   new == entries'[arr].value
                   si == TextOf(entries, old[i])
                   sj == TextOf(entries, old[j])
                   a == cursor.start.index
                   b == cursor.end.index
               IN /\ call'.result = "true"
                  /\ Len(new) = Len(old) - (j - i)
                  /\ SubSeq(new, 1, i - 1) = SubSeq(old, 1, i - 1)
                  /\ SubSeq(new, i + 1, Len(new)) = SubSeq(old, j + 1, Len(old))
                  /\ parseType(new[i]) = "paragraph"
                  /\ TextOf(entries', new[i]) =
                       SubSeq(si, 1, a) \o SubSeq(sj, b + 1, Len(sj))
                  /\ cursor' = Caret(Point(entries'[new[i]].value, a))]_vars

----------------------------------------------------------------------------
(* The update call depth after an exception *)

\* C19: whenever no update or dispatchCommand call is executing, the update
\* call depth is 0, also after a call whose callback or handler threw
C19_DepthZeroBetweenCalls == updateCallDepth = 0

----------------------------------------------------------------------------
(* deleteForward and deleteBackward at the boundary of an array *)

\* the array handler is asked to delete at the boundary: the array has a
\* single child, or the child index is the last one (deleteForward) or 0
\* (deleteBackward)
AtBoundary(es, t) ==
  /\ t.key \in DOMAIN es
  /\ es[t.key].type \in ArrayTypes
  /\ t.start[1] # Undefined
  /\ t.start[1] = t.end[1]
  /\ \/ Len(es[t.key].value) = 1
     \/ t.command = "deleteForward" /\ t.start[1] = Len(es[t.key].value) - 1
     \/ t.command = "deleteBackward" /\ t.start[1] = 0

\* C20: the array handler's deleteForward declines (returns null and changes
\* nothing) when the array has a single child or the child index is the
\* last index, and its deleteBackward declines when the array has a single
\* child or the child index is 0
C20_ArrayDeleteDeclinesAtBoundary ==
  [][(steps' = steps + 1 /\ call'.command \in {"deleteForward", "deleteBackward"})
     => \A i \in 1..Len(call'.tried) :
          AtBoundary(entries, call'.tried[i])
          => /\ ~call'.tried[i].success
             /\ ~(call'.result = "thrown" /\ i = Len(call'.tried))
             /\ \E n \in 1..Len(call'.nulls) :
                  /\ call'.nulls[n].op = "onCommand"
                  /\ call'.nulls[n].key = call'.tried[i].key
                  /\ ~call'.nulls[n].changed]_vars

----------------------------------------------------------------------------
(* A dispatch that returns false *)

\* C21: whenever dispatchCommand returns false, every stored entry and the
\* cursor are identical to their values before the call
C21_FalseChangesNothing ==
  [][(/\ steps' = steps + 1
      /\ call'.command \in Commands
      /\ call'.result = "false")
     => entries' = entries /\ cursor' = cursor]_vars

----------------------------------------------------------------------------
(* Document order *)

\* the place of an index among its siblings: array indices as they are, the
\* slots task, answers and isCorrect, answer in this order
Rank(index) == IF index < 0 THEN -index ELSE index

\* the indices that lead from the root to a point
Position(es, point) ==
  IndexPathTo(es, rootKey, point.key,
              IF point.index = Undefined THEN <<>> ELSE <<point.index>>)

RECURSIVE LexLeq(_, _)
LexLeq(a, b) ==
  IF a = <<>> THEN TRUE
  ELSE IF b = <<>> THEN FALSE
  ELSE IF Rank(a[1]) # Rank(b[1]) THEN Rank(a[1]) < Rank(b[1])
  ELSE LexLeq(Tail(a), Tail(b))

\* the start of the cursor does not come after its end in document order
InDocumentOrder(es, c) ==
  c = NullCursor \/ LexLeq(Position(es, c.start), Position(es, c.end))

----------------------------------------------------------------------------
(* insertNewElement in a paragraph *)

\* C22: for a cursor collapsed at offset a of the text, holding s, of child i
\* of an array of n paragraphs, insertNewElement yields an array of n + 1
\* children in which child i holds s[0..a), a new child at index i + 1 holds
\* s[a..] (an empty paragraph when a = len(s)), all other children are
\* unchanged and keep their order, and the cursor is collapsed at offset 0
\* of the new child's text
C22_InsertNewElementSplits ==
  [][\A arr \in Reachable(entries) :
       (DispatchStep("insertNewElement") /\ ArrayOfParagraphs(entries, arr))
       => \A i \in 1..Len(entries[arr].value) :
            (/\ isCollapsed(cursor)
             /\ cursor.start.key = entries[entries[arr].value[i]].value
             /\ cursor.start.index \in 0..Len(TextOf(entries, entries[arr].value[i])))
            => LET old == entries[arr].value
                   new == entries'[arr].value
                   s == TextOf(entries, old[i])
                   a == cursor.start.index
               IN /\ call'.result = "true"
                  /\ Len(new) = Len(old) + 1
                  /\ SubSeq(new, 1, i) = SubSeq(old, 1, i)
                  /\ SubSeq(new, i + 2, Len(new)) = SubSeq(old, i + 1, Len(old))
                  /\ new[i + 1] \notin DOMAIN entries
                  /\ parseType(new[i + 1]) = "paragraph"
                  /\ entries'[new[i + 1]].parent = arr
                  /\ TextOf(entries', old[i]) = SubSeq(s, 1, a)
                  /\ TextOf(entries', new[i + 1]) = SubSeq(s, a + 1, Len(s))
                  /\ \A j \in 1..Len(old) :
                       j # i => /\ entries'[old[j]] = entries[old[j]]
                                /\ TextOf(entries', old[j]) = TextOf(entries, old[j])
                  /\ cursor' = Caret(Point(entries'[new[i + 1]].value, 0))]_vars

----------------------------------------------------------------------------
(* The document tree *)

\* the number of times the key occurs in the value of the entry
Occurrences(entry, key) ==
  IF entry.type \in ArrayTypes
    THEN Cardinality({i \in 1..Len(entry.value) : entry.value[i] = key})
  ELSE IF entry.type = "multipleChoice"
    THEN (IF entry.value.task = key THEN 1 ELSE 0)
         + (IF entry.value.answers = key THEN 1 ELSE 0)
  ELSE IF entry.type = "multipleChoiceAnswer"
    THEN (IF entry.value.isCorrect = key THEN 1 ELSE 0)
         + (IF entry.value.answer = key THEN 1 ELSE 0)
  ELSE IF key \in ChildKeys(entry) THEN 1 ELSE 0

\* the entries reachable from the root form a tree
IsTree(es) ==
  LET reachable == Reachable(es)
      children == [p \in reachable |-> ChildKeys(es[p])]
  IN \A k \in reachable \ {rootKey} :
       /\ es[k].parent \in reachable
       /\ \A p \in reachable : k \in children[p] => p = es[k].parent
       /\ Occurrences(es[es[k].parent], k) = 1

\* C23: after any sequence of dispatched commands whose cursors have a start
\* that does not come after the end in document order, the entries reachable
\* from the root form a tree: each reachable non-root entry's parent field
\* equals the key of the unique reachable entry whose value contains its
\* key, and no key occurs twice among the children of reachable entries.
\* Stated per step: the loaded document is a tree, a command dispatched on a
\* tree with a cursor in document order leaves a tree, and so does a change
\* of the selection
C23_TreePreserved ==
  [][/\ call.command = "none" => IsTree(entries)
     /\ \/ entries' = entries
        \/ (/\ steps' = steps + 1 => InDocumentOrder(entries, cursor)
            /\ IsTree(entries))
           => IsTree(entries')]_vars

\* two commands have been dispatched on a tree, the second a deleteBackward
\* that the root array handled by merging two children, and the entries
\* reachable from the root are a tree
C23_Witness ==
  /\ steps = 2
  /\ call.command = "deleteBackward"
  /\ call.result = "true"
  /\ Len(call.tried) > 0
  /\ call.tried[Len(call.tried)].key = rootKey
  /\ DOMAIN entries \ Reachable(entries) # {}
  /\ IsTree(entries)

----------------------------------------------------------------------------
(* The cursor after a command *)

\* the point addresses an entry reachable from the root, with a character
\* offset inside the text if and only if the entry is a text
ValidPoint(es, point) ==
  /\ point.key \in Reachable(es)
  /\ IF es[point.key].type = "text"
       THEN point.index \in 0..Len(es[point.key].value)
       ELSE point.index = Undefined

ValidCursor(es, c) ==
  c = NullCursor \/ (ValidPoint(es, c.start) /\ ValidPoint(es, c.end))

\* C24: after every dispatchCommand that returns true, starting from a
\* cursor on reachable entries with offsets within bounds, the cursor (if
\* set) is collapsed, addresses an entry reachable from the root, and any
\* character offset it carries lies between 0 and the length of the
\* addressed text leaf
C24_CursorAfterSuccess ==
  [][(/\ steps' = steps + 1
      /\ call'.command \in Commands
      /\ call'.result = "true"
      /\ ValidCursor(entries, cursor))
     => \/ cursor' = NullCursor
        \/ isCollapsed(cursor') /\ ValidPoint(entries', cursor'.start)]_vars

----------------------------------------------------------------------------
(* Kinds of children *)

\* the kinds of children an array-of-children entry may hold
AllowedChildTypes(type) ==
  CASE type = "root" -> {"paragraph", "multipleChoice"}
    [] type = "content" -> {"paragraph"}
    [] type = "multipleChoiceAnswers" -> {"multipleChoiceAnswer"}

\* C25: after any sequence of dispatched commands, every child of a reachable
\* array-of-children entry has a kind allowed for that array: paragraph or
\* multipleChoice under root, paragraph under content, multipleChoiceAnswer
\* under multipleChoiceAnswers
C25_ChildKindsAllowed ==
  \A a \in Reachable(entries) :
    entries[a].type \in ArrayTypes
    => \A i \in 1..Len(entries[a].value) :
         parseType(entries[a].value[i]) \in AllowedChildTypes(entries[a].type)

----------------------------------------------------------------------------
(* Text kept by the array-level deletions *)

\* the concatenation of the text leaves below the entry, in document order
RECURSIVE TextBelow(_, _)
RECURSIVE TextBelowAll(_, _)
TextBelow(es, key) ==
  CASE es[key].type = "text" -> es[key].value
    [] es[key].type = "paragraph" -> TextBelow(es, es[key].value)
    [] es[key].type \in ArrayTypes -> TextBelowAll(es, es[key].value)
    [] es[key].type = "multipleChoice" ->
         TextBelow(es, es[key].value.task) \o TextBelow(es, es[key].value.answers)
    [] es[key].type = "multipleChoiceAnswer" -> TextBelow(es, es[key].value.answer)
    [] OTHER -> <<>>
TextBelowAll(es, keys) ==
  IF keys = <<>> THEN <<>>
  ELSE TextBelow(es, Head(keys)) \o TextBelowAll(es, Tail(keys))

\* the call ended with a deleteForward or deleteBackward that an
\* array-of-children handler carried out
ArrayLevelDelete(es, c) ==
  /\ c.command \in {"deleteForward", "deleteBackward"}
  /\ c.result = "true"
  /\ Len(c.tried) > 0
  /\ c.tried[Len(c.tried)].command = c.command
  /\ c.tried[Len(c.tried)].success
  /\ es[c.tried[Len(c.tried)].key].type \in ArrayTypes

\* C26: array-level deleteForward and deleteBackward never discard text:
\* whenever one of them succeeds, the concatenation of all text leaves
\* reachable from the root, in document order, is the same before and after
\* (a sibling is spliced out only if its content was merged into its
\* neighbour)
C26_ArrayDeleteKeepsText ==
  [][(steps' = steps + 1 /\ ArrayLevelDelete(entries, call'))
     => TextBelow(entries', rootKey) = TextBelow(entries, rootKey)]_vars

----------------------------------------------------------------------------
(* Two state managers on one shared entry map *)

\* In SpecShared the fields of the Y.Map (entries, cursor, counter) are
\* shared, and the private fields of WritableState and StateManager
\* (lastKey, updateCallDepth, lastUpdateCount, listener, notified) are
\* functions of the manager

Managers == {1, 2}

Other(m) == 3 - m

\* the carets a user can place in the document
Carets(es) == {Caret(p) : p \in Points(es)}

\* the store as manager m sees it: the shared map and its own fields
HeapOf(m) ==
  [entries |-> entries, cursor |-> cursor, counter |-> counter,
   lastKey |-> lastKey[m], updateCallDepth |-> updateCallDepth[m],
   lastUpdateCount |-> lastUpdateCount[m], listener |-> listener[m],
   notified |-> notified[m], thrown |-> FALSE, tried |-> <<>>,
   keys |-> <<>>, mutations |-> 0, notifiedAt |-> <<>>,
   nulls |-> <<>>, dispatches |-> 0, overwritten |-> <<>>]

\* the updateFunc of the manager that did not make the call: the Y.Map calls
\* it after every set; `before` is the counter at the start of the call.
\* The result is [lastUpdateCount, notified]
ObservedBy(o, before, state) ==
  LET first == state.mutations > 0 /\ lastUpdateCount[o] # before
      seen == IF first THEN before ELSE lastUpdateCount[o]
      last == state.counter # seen
  IN [lastUpdateCount |-> IF last THEN state.counter ELSE seen,
      notified |-> notified[o]
                   + (IF first THEN listener[o] ELSE 0)
                   + (IF last THEN listener[o] ELSE 0)]

\* the shared map and the fields of both managers after a call of manager m
InstallFor(m, state) ==
  LET o == Other(m)
      seen == ObservedBy(o, counter, state)
  IN /\ entries' = state.entries
     /\ cursor' = state.cursor
     /\ counter' = state.counter
     /\ lastKey' = [lastKey EXCEPT ![m] = state.lastKey]
     /\ updateCallDepth' = [updateCallDepth EXCEPT ![m] = state.updateCallDepth]
     /\ lastUpdateCount' = (m :> state.lastUpdateCount)
                           @@ (o :> seen.lastUpdateCount)
     /\ listener' = listener
     /\ notified' = (m :> state.notified) @@ (o :> seen.notified)
     /\ network' = network

\* the first manager creates the document; the second one is constructed on
\* the store that holds '0:root' and inserts nothing; both register a listener
InitShared ==
  \E initial \in InitialContents :
    LET s == Constructed(initial) IN
      /\ entries = s.entries
      /\ cursor = s.cursor
      /\ counter = s.counter
      /\ lastKey = (1 :> s.lastKey) @@ (2 :> EmptyState.lastKey)
      /\ updateCallDepth = [m \in Managers |-> 0]
      /\ lastUpdateCount = [m \in Managers |-> s.counter]
      /\ listener = [m \in Managers |-> 1]
      /\ notified = [m \in Managers |-> 0]
      /\ call = NoCall
      /\ steps = 0
      /\ network = <<>>

\* what is recorded of a call in SpecShared: the payload is the manager that
\* made the call
SharedReturn(m, command, r) ==
  /\ InstallFor(m, r.state)
  /\ call' = Call(command, <<m>>, r)

\* ReadonlyState.cursor as read through manager m
CursorReadBy(m) == HeapOf(m).cursor

\* manager m places the selection
SharedSelectionChange ==
  /\ call.command = "none"
  /\ \E m \in Managers :
       \E c \in Carets(entries) :
         SharedReturn(m, "setCursor",
                      managerUpdate(Result(setCursor(beginUpdate(HeapOf(m)), c),
                                           TRUE)))
  /\ steps' = steps

\* manager m dispatches a command
SharedDispatch ==
  /\ steps < MaxSharedCommands
  /\ \E m \in Managers :
       \E command \in Commands :
         \E payload \in (IF command = "insertText" THEN {<<"x">>} ELSE {<<>>}) :
           SharedReturn(m, command, dispatchCommand(HeapOf(m), command, payload))
  /\ steps' = steps + 1

NextShared == SharedSelectionChange \/ SharedDispatch

SpecShared == InitShared /\ [][NextShared]_vars

\* C27: with two WritableState instances writing to the same shared entry
\* map, no insert by one instance ever overwrites an entry stored by the
\* other: keys generated by different instances never coincide, also when
\* the second instance starts on a store that already holds '0:root'
C27_NoInsertOverwrites == call.overwritten = <<>>

\* C28: with two state managers sharing one store, a setCursor (or any
\* command) issued through one manager never changes the cursor that the
\* other manager reads and dispatches on
C28_CursorPerManager ==
  [][\A m \in Managers :
       call'.payload = <<m>>
       => CursorReadBy(Other(m))' = CursorReadBy(Other(m))]_vars

----------------------------------------------------------------------------
(* Two writers on a replicated store *)

\* In SpecReplicated every writer has its own replica of the Y.Map. Of the
\* entries of the map, 'cursor' and 'counter' are written; each is held per
\* writer as [value, own, heard]: the value, the number of writes of the
\* writer itself and the number of writes received from the other writer.
\* The document entries are the same on both replicas and are not written.
\* The private fields of the managers, call and steps are functions of the
\* writer: call counts the invocations of a writer's listeners that a
\* received update caused, steps the batches the writer completed.

\* the replica of writer w and the fields of its manager
HeapAt(w) ==
  [entries |-> entries, cursor |-> cursor[w].value,
   counter |-> counter[w].value,
   lastKey |-> lastKey[w], updateCallDepth |-> updateCallDepth[w],
   lastUpdateCount |-> lastUpdateCount[w], listener |-> listener[w],
   notified |-> notified[w], thrown |-> FALSE, tried |-> <<>>,
   keys |-> <<>>, mutations |-> 0, notifiedAt |-> <<>>,
   nulls |-> <<>>, dispatches |-> 0, overwritten |-> <<>>]

\* both writers have loaded the same document and registered a listener
InitReplicated ==
  \E initial \in InitialContents :
    LET s == Constructed(initial) IN
      /\ entries = s.entries
      /\ cursor = [w \in Managers |-> [value |-> s.cursor, own |-> 0, heard |-> 0]]
      /\ counter = [w \in Managers |-> [value |-> s.counter, own |-> 0, heard |-> 0]]
      /\ lastKey = [w \in Managers |-> s.lastKey]
      /\ updateCallDepth = [w \in Managers |-> 0]
      /\ lastUpdateCount = [w \in Managers |-> s.counter]
      /\ listener = [w \in Managers |-> 1]
      /\ notified = [w \in Managers |-> 0]
      /\ call = [w \in Managers |-> 0]
      /\ steps = [w \in Managers |-> 0]
      /\ network = [w \in Managers |-> <<>>]

\* the carets placed in SpecReplicated: the two ends of the first text
ReplicatedCarets ==
  {Caret(Point(Key(2, "text"), i)) : i \in {0, Len(entries[Key(2, "text")].value)}}

\* the update that Yjs sends for a set of `key` by writer w: the value and
\* the number of the receiver's writes of the key that w had received
Update(w, key, value, replica) ==
  [key |-> key, value |-> value, by |-> w, seen |-> replica.heard]

\* the replica of a key after a set by the writer itself
Written(replica, value) ==
  [value |-> value, own |-> replica.own + 1, heard |-> replica.heard]

\* Y.Map integrating a received item at writer o: the item becomes the value
\* of the key when it was written after the receiver's writes (it has seen
\* all of them) or, written concurrently, by the writer that Yjs orders last
Integrated(o, replica, item) ==
  [value |-> IF item.seen >= replica.own \/ item.by > o
               THEN item.value ELSE replica.value,
   own |-> replica.own,
   heard |-> replica.heard + 1]

\* writer w completes the batch manager.update(state => state.setCursor(c)):
\* the cursor is set, the counter is incremented when the depth is back at 0,
\* and Yjs sends one update for each of the two sets
Batch(w) ==
  /\ steps[w] < MaxBatches
  /\ \E c \in ReplicatedCarets :
       LET r == managerUpdate(Result(setCursor(beginUpdate(HeapAt(w)), c), TRUE))
       IN /\ cursor' = [cursor EXCEPT ![w] = Written(@, r.state.cursor)]
          /\ counter' = [counter EXCEPT ![w] = Written(@, r.state.counter)]
          /\ lastKey' = [lastKey EXCEPT ![w] = r.state.lastKey]
          /\ updateCallDepth' =
               [updateCallDepth EXCEPT ![w] = r.state.updateCallDepth]
          /\ lastUpdateCount' =
               [lastUpdateCount EXCEPT ![w] = r.state.lastUpdateCount]
          /\ notified' = [notified EXCEPT ![w] = r.state.notified]
          /\ network' =
               [network EXCEPT ![Other(w)] =
                  @ \o <<Update(w, "cursor", r.state.cursor, cursor[w]),
                         Update(w, "counter", r.state.counter, counter[w])>>]
  /\ steps' = [steps EXCEPT ![w] = @ + 1]
  /\ UNCHANGED <<entries, listener, call>>

\* writer o receives the next update: Yjs integrates it into the replica and
\* calls the observers of the map, here updateFunc of the manager
Deliver(o) ==
  /\ network[o] # <<>>
  /\ LET item == Head(network[o])
         newCursor == IF item.key = "cursor"
                        THEN Integrated(o, cursor[o], item) ELSE cursor[o]
         newCounter == IF item.key = "counter"
                         THEN Integrated(o, counter[o], item) ELSE counter[o]
         seen == Observe([HeapAt(o) EXCEPT !.cursor = newCursor.value,
                                           !.counter = newCounter.value])
     IN /\ cursor' = [cursor EXCEPT ![o] = newCursor]
        /\ counter' = [counter EXCEPT ![o] = newCounter]
        /\ lastUpdateCount' = [lastUpdateCount EXCEPT ![o] = seen.lastUpdateCount]
        /\ notified' = [notified EXCEPT ![o] = seen.notified]
        /\ call' = [call EXCEPT ![o] = @ + (seen.notified - notified[o])]
  /\ network' = [network EXCEPT ![o] = Tail(@)]
  /\ UNCHANGED <<entries, lastKey, updateCallDepth, listener, steps>>

NextReplicated ==
  \/ Batch(1)
  \/ Batch(2)
  \/ Deliver(1)
  \/ Deliver(2)

\* the provider delivers every update it has sent: a writer that has an
\* update waiting eventually receives it
SpecReplicated ==
  /\ InitReplicated
  /\ [][NextReplicated]_vars
  /\ WF_vars(Deliver(1))
  /\ WF_vars(Deliver(2))

\* C29: with two writers on the same replicated store, every batch completed
\* by one writer eventually causes the other writer's registered listeners
\* to be invoked, even when both writers complete batches concurrently
\* starting from the same counter value
C29_BatchNotifiesOther ==
  \A w \in Managers :
    \A n \in 1..MaxBatches :
      (steps[w] >= n) ~> (call[Other(w)] >= n)

----------------------------------------------------------------------------
(* insertText over a selection *)

\* C30: for a non-collapsed cursor from offset a to offset b (a < b) within
\* one text leaf holding s, insertText(t) returns true and leaves the leaf
\* holding s[0..a) + t + s[b..] with the cursor collapsed at offset
\* a + len(t), all inside a single batch (one counter increment, one
\* listener notification)
C30_InsertTextReplacesRange ==
  [][\A leaf \in Reachable(entries) :
       (/\ DispatchStep("insertText")
        /\ entries[leaf].type = "text"
        /\ cursor.start.key = leaf
        /\ cursor.end.key = leaf
        /\ cursor.start.index \in 0..Len(entries[leaf].value)
        /\ cursor.end.index \in 0..Len(entries[leaf].value)
        /\ cursor.start.index < cursor.end.index)
       => LET s == entries[leaf].value
              a == cursor.start.index
              b == cursor.end.index
              t == call'.payload
          IN /\ call'.result = "true"
             /\ entries'[leaf].value = SubSeq(s, 1, a) \o t \o SubSeq(s, b + 1, Len(s))
             /\ cursor' = Caret(Point(leaf, a + Len(t)))
             /\ counter' = counter + 1
             /\ notified' = notified + 1
             /\ call'.notifiedAt = <<0>>]_vars

----------------------------------------------------------------------------
(* Deletion of a selected range by deleteForward and deleteBackward *)

\* C31: for a non-collapsed cursor, dispatchCommand(deleteForward) and
\* dispatchCommand(deleteBackward) produce exactly the same entries, cursor
\* and return value as dispatchCommand(deleteRange) from the same state:
\* after the range deletion no further character or sibling is removed
C31_DeleteOnRangeIsDeleteRange ==
  [][(/\ steps' = steps + 1
      /\ call'.command \in {"deleteForward", "deleteBackward"}
      /\ cursor # NullCursor
      /\ ~isCollapsed(cursor))
     => LET r == dispatchCommand(Heap, "deleteRange", <<>>)
        IN /\ entries' = r.state.entries
           /\ cursor' = r.state.cursor
           /\ call'.result = ResultOf(r)]_vars

\* deleteForward on a selection inside one text has removed the selected
\* characters through the nested deleteRange, and no handler was tried for
\* deleteForward itself although a character follows the caret
C31_Witness ==
  /\ call.command = "deleteForward"
  /\ call.result = "true"
  /\ Len(call.tried) = 1
  /\ call.tried[1].command = "deleteRange"
  /\ call.tried[1].success
  /\ call.tried[1].start # call.tried[1].end
  /\ isCollapsed(cursor)
  /\ cursor.start.index # Undefined
  /\ cursor.start.index < Len(entries[cursor.start.key].value)

----------------------------------------------------------------------------
(* Deletion of one character in a text leaf *)

\* the handler of the entry `key` declined the command of the call, the
\* first handler the call tried, and had changed no entry and not the cursor
DeclinedFirstUnchanged(c, key) ==
  /\ Len(c.tried) >= 1
  /\ c.tried[1].key = key
  /\ c.tried[1].handled
  /\ ~c.tried[1].success
  /\ Len(c.nulls) >= 1
  /\ c.nulls[1] = [op |-> "onCommand", key |-> key, changed |-> FALSE]

\* the handler of the entry `key` carried out the command of the call, the
\* only handler the call tried
HandledAlone(c, key) ==
  /\ c.result = "true"
  /\ Len(c.tried) = 1
  /\ c.tried[1].key = key
  /\ c.tried[1].success

\* C32: at a text leaf holding s with the cursor collapsed at offset i,
\* deleteBackward removes exactly the character at i - 1 and moves the caret
\* to i - 1 when i > 0, and declines without change when i = 0; deleteForward
\* removes exactly the character at i and keeps the caret at i when
\* i < len(s), and declines without change when i = len(s)
C32_DeleteOneCharacter ==
  [][\A leaf \in DOMAIN entries :
       (/\ steps' = steps + 1
        /\ call'.command \in {"deleteBackward", "deleteForward"}
        /\ entries[leaf].type = "text"
        /\ cursor = Caret(Point(leaf, cursor.start.index))
        /\ cursor.start.index \in 0..Len(entries[leaf].value))
       => LET s == entries[leaf].value
              i == cursor.start.index
              others == \A k \in DOMAIN entries : k # leaf => entries'[k] = entries[k]
          IN /\ (call'.command = "deleteBackward" /\ i > 0)
                  => /\ HandledAlone(call', leaf)
                     /\ entries'[leaf].value =
                          SubSeq(s, 1, i - 1) \o SubSeq(s, i + 1, Len(s))
                     /\ cursor' = Caret(Point(leaf, i - 1))
                     /\ DOMAIN entries' = DOMAIN entries /\ others
             /\ (call'.command = "deleteBackward" /\ i = 0)
                  => DeclinedFirstUnchanged(call', leaf)
             /\ (call'.command = "deleteForward" /\ i < Len(s))
                  => /\ HandledAlone(call', leaf)
                     /\ entries'[leaf].value =
                          SubSeq(s, 1, i) \o SubSeq(s, i + 2, Len(s))
                     /\ cursor' = Caret(Point(leaf, i))
                     /\ DOMAIN entries' = DOMAIN entries /\ others
             /\ (call'.command = "deleteForward" /\ i = Len(s))
                  => DeclinedFirstUnchanged(call', leaf)]_vars

\* deleteForward at offset 1 of a text of three characters was carried out
\* by the leaf alone: the text holds two different characters and the caret
\* is still at offset 1
C32_Witness ==
  /\ call.command = "deleteForward"
  /\ HandledAlone(call, cursor.start.key)
  /\ call.tried[1].start = <<1>>
  /\ cursor = Caret(Point(call.tried[1].key, 1))
  /\ Len(entries[cursor.start.key].value) = 2
  /\ entries[cursor.start.key].value[1] # entries[cursor.start.key].value[2]

----------------------------------------------------------------------------
(* A cursor from an entry to a point below it *)

\* the entry `a` is a proper ancestor of the entry `b`
ProperAncestor(es, a, b) == a # b /\ a \in Range(ChainToRoot(es, b))

\* C33: for a cursor whose endpoints address entries of the tree of which one
\* is a proper ancestor of the other, dispatchCommand takes that ancestor,
\* the deepest entry containing both endpoints, as the lowest common
\* ancestor (the first handler it tries is the ancestor's) and completes
\* returning a boolean
C33_AncestorIsCommonAncestor ==
  [][\A a, b \in Reachable(entries) :
       (/\ steps' = steps + 1
        /\ call'.command \in Commands
        /\ {cursor.start.key, cursor.end.key} = {a, b}
        /\ ProperAncestor(entries, a, b))
       => /\ call'.result \in {"true", "false"}
          /\ Len(call'.tried) >= 1
          /\ call'.tried[1].key = a]_vars

----------------------------------------------------------------------------
(* A cursor over children of one array *)

\* C34: when the cursor's start and end are node-level points (no character
\* offset) on two different children of the same array, the first handler
\* tried by dispatchCommand is the handler of that array itself, not of the
\* array's parent, and it receives the two children's indices as the first
\* elements of the start and end index paths
C34_ArrayIsCommonAncestor ==
  [][\A a \in Reachable(entries) :
       (/\ steps' = steps + 1
        /\ call'.command \in Commands
        /\ entries[a].type \in ArrayTypes)
       => \A i, j \in 1..Len(entries[a].value) :
            (/\ entries[a].value[i] # entries[a].value[j]
             /\ cursor = [start |-> Point(entries[a].value[i], Undefined),
                          end |-> Point(entries[a].value[j], Undefined)])
            => /\ Len(call'.tried) >= 1
               /\ call'.tried[1].key = a
               /\ Len(call'.tried[1].start) >= 1
               /\ Len(call'.tried[1].end) >= 1
               /\ call'.tried[1].start[1] = IndexOf(entries[a].value, cursor.start.key)
               /\ call'.tried[1].end[1] = IndexOf(entries[a].value, cursor.end.key)]_vars

\* deleteRange with the cursor from the first to the second answer of a
\* multiple choice was tried first, and carried out, by the answers array
\* with the index paths [0, undefined] and [1, undefined]
C34_Witness ==
  /\ call.command = "deleteRange"
  /\ call.result = "true"
  /\ Len(call.tried) = 1
  /\ parseType(call.tried[1].key) = "multipleChoiceAnswers"
  /\ call.tried[1].start = <<0, Undefined>>
  /\ call.tried[1].end = <<1, Undefined>>

----------------------------------------------------------------------------
(* The path from the root to a point *)

\* the child that sits at the index within the entry: an array element, the
\* child in a named slot, or the single child of a wrapped node, which has no
\* index
ChildAt(entry, index) ==
  CASE entry.type \in ArrayTypes -> At(entry.value, index)
    [] entry.type = "paragraph" ->
         IF index = Undefined THEN entry.value ELSE Null
    [] entry.type = "multipleChoice" ->
         IF index = SlotTask THEN entry.value.task
         ELSE IF index = SlotAnswers THEN entry.value.answers
         ELSE Null
    [] entry.type = "multipleChoiceAnswer" ->
         IF index = SlotIsCorrect THEN entry.value.isCorrect
         ELSE IF index = SlotAnswer THEN entry.value.answer
         ELSE Null
    [] OTHER -> Null

\* C35: for every point addressing an entry reachable from the root,
\* getPathToRoot returns frames ordered root first: the first frame's entry
\* has parent null, the last frame's entry is the addressed entry (carrying
\* the point's character offset if any), each frame's entry is the parent of
\* the next frame's entry, and each non-last frame's index is the position
\* (array index or slot name; none for a wrapped single child) of the next
\* frame's entry within it
C35_PathToRoot ==
  \A point \in Points(entries) :
    LET r == getPathToRoot(Heap, point)
        n == Len(r.path)
    IN /\ r.ok
       /\ n >= 1
       /\ r.path[1].entry.parent = Null
       /\ r.path[n] = Frame(entries[point.key], point.index)
       /\ \A i \in 1..(n - 1) :
            /\ r.path[i].entry = entries[r.path[i].entry.key]
            /\ r.path[i + 1].entry.parent = r.path[i].entry.key
            /\ ChildAt(r.path[i].entry, r.path[i].index) = r.path[i + 1].entry.key

\* a collapsed deleteRange at the start of the text of the first answer of
\* the second element went through the five frames of the path from the
\* root: the root was tried last, with the indices 1, answers, 0, answer, 0
C35_Witness ==
  /\ call.command = "deleteRange"
  /\ call.result = "false"
  /\ Len(call.tried) = 5
  /\ call.tried[5].key = rootKey
  /\ call.tried[5].start = <<1, SlotAnswers, 0, SlotAnswer, 0>>
  /\ getPathToRoot(Heap, cursor.start).ok
  /\ Len(getPathToRoot(Heap, cursor.start).path) = 5

----------------------------------------------------------------------------
(* selectStart and selectEnd on the entries of a document *)

\* manager.update((state) => getHandler(entry).selectStart(state, entry))
SelectStartOn ==
  /\ steps < MaxSelects
  /\ \E key \in DOMAIN entries :
       LET r == managerUpdate(Result(selectStart(beginUpdate(Heap), entries[key]),
                                     TRUE))
       IN /\ Install(r.state)
          /\ call' = [command |-> "selectStart", key |-> key, result |-> ResultOf(r)]
  /\ steps' = steps + 1

\* manager.update((state) => getHandler(entry).selectEnd(state, entry))
SelectEndOn ==
  /\ steps < MaxSelects
  /\ \E key \in DOMAIN entries :
       LET r == managerUpdate(Result(selectEnd(beginUpdate(Heap), entries[key]),
                                     TRUE))
       IN /\ Install(r.state)
          /\ call' = [command |-> "selectEnd", key |-> key, result |-> ResultOf(r)]
  /\ steps' = steps + 1

NextSelect ==
  \/ SelectStartOn
  \/ SelectEndOn

SpecSelect == Init /\ [][NextSelect]_vars

\* the first and the last position of the subtree of an entry: the offset 0
\* of its first text leaf and the offset length of its last one; a boolean
\* leaf has the one position of the node itself
RECURSIVE StartOf(_, _)
StartOf(es, key) ==
  CASE es[key].type = "text" -> Point(key, 0)
    [] es[key].type = "boolean" -> Point(key, Undefined)
    [] es[key].type = "paragraph" -> StartOf(es, es[key].value)
    [] es[key].type \in ArrayTypes -> StartOf(es, es[key].value[1])
    [] es[key].type = "multipleChoice" -> StartOf(es, es[key].value.task)
    [] es[key].type = "multipleChoiceAnswer" -> StartOf(es, es[key].value.answer)

RECURSIVE EndOf(_, _)
EndOf(es, key) ==
  CASE es[key].type = "text" -> Point(key, Len(es[key].value))
    [] es[key].type = "boolean" -> Point(key, Undefined)
    [] es[key].type = "paragraph" -> EndOf(es, es[key].value)
    [] es[key].type \in ArrayTypes -> EndOf(es, es[key].value[Len(es[key].value)])
    [] es[key].type = "multipleChoice" -> EndOf(es, es[key].value.answers)
    [] es[key].type = "multipleChoiceAnswer" -> EndOf(es, es[key].value.answer)

\* C36: selectEnd on any entry sets a collapsed cursor at the very end of
\* that entry's subtree: for an array-of-children entry this is the end
\* position of its last child (for paragraphs, the last paragraph's text at
\* offset equal to its length); selectStart symmetrically selects offset 0
\* of the first child's first text leaf
C36_SelectStartAndEnd ==
  /\ call.command = "selectEnd"
       => call.result = "true" /\ cursor = Caret(EndOf(entries, call.key))
  /\ call.command = "selectStart"
       => call.result = "true" /\ cursor = Caret(StartOf(entries, call.key))

----------------------------------------------------------------------------
(* getIndexWithin on the entries of a document *)

\* getHandler(entry).getIndexWithin(entry, childKey) for an entry and a key
\* of the document
IndexLookup ==
  \E key, childKey \in DOMAIN entries :
    LET r == getIndexWithin(entries[key], childKey)
    IN /\ call' = [command |-> "getIndexWithin", key |-> key, child |-> childKey,
                   ok |-> r.ok, index |-> r.index]
       /\ UNCHANGED <<entries, cursor, counter, lastKey, updateCallDepth,
                      lastUpdateCount, listener, notified, steps, network>>

NextIndex == IndexLookup

SpecIndex == Init /\ [][NextIndex]_vars

\* the kinds of handler that have children: array, wrapped single child,
\* keyed object
ParentTypes == ArrayTypes \cup {"paragraph", "multipleChoice", "multipleChoiceAnswer"}

\* C37: for every handler kind that has children (array, wrapped single
\* child, keyed object), getIndexWithin(entry, childKey) fails with an error
\* whenever childKey is not a direct child of entry; it never returns an
\* index for a non-child
C37_IndexOnlyOfChildren ==
  (/\ call.command = "getIndexWithin"
   /\ entries[call.key].type \in ParentTypes
   /\ call.child \notin ChildKeys(entries[call.key]))
  => ~call.ok

----------------------------------------------------------------------------
(* Deletion at the boundary of a multiple choice *)

\* C38: a deleteBackward or deleteForward that is declined by every entry
\* below a multipleChoice node (cursor at offset 0 of the first task
\* paragraph or of the first answer for backward; cursor at the end of the
\* only task paragraph for forward) is absorbed by the multipleChoice
\* handler: dispatch returns true and no entry and not the cursor changes,
\* so such a command never reaches the root and never merges or removes the
\* multipleChoice node
C38_MultipleChoiceAbsorbs ==
  [][\A mc \in Reachable(entries) :
       (/\ steps' = steps + 1
        /\ entries[mc].type = "multipleChoice"
        /\ \/ /\ call'.command = "deleteBackward"
              /\ cursor \in {Caret(StartOf(entries, entries[mc].value.task)),
                             Caret(StartOf(entries, entries[mc].value.answers))}
           \/ /\ call'.command = "deleteForward"
              /\ Len(entries[entries[mc].value.task].value) = 1
              /\ cursor = Caret(EndOf(entries, entries[mc].value.task)))
       => LET T == call'.tried
          IN /\ call'.result = "true"
             /\ entries' = entries
             /\ cursor' = cursor
             /\ Len(T) >= 2
             /\ T[Len(T)].key = mc
             /\ T[Len(T)].success
             /\ \A i \in 1..(Len(T) - 1) : ~T[i].success
             /\ \A i \in 1..Len(T) : T[i].key # rootKey]_vars

\* deleteForward at the end of the only task paragraph was declined by the
\* text and by the content array and absorbed by the multiple choice, with
\* the index path task, 0, -, offset
C38_Witness ==
  /\ call.command = "deleteForward"
  /\ call.result = "true"
  /\ Len(call.tried) = 4
  /\ parseType(call.tried[1].key) = "text"
  /\ parseType(call.tried[3].key) = "content"
  /\ call.tried[3].handled /\ ~call.tried[3].success
  /\ parseType(call.tried[4].key) = "multipleChoice"
  /\ call.tried[4].success
  /\ Len(call.tried[4].start) = 4
  /\ call.tried[4].start[1] = SlotTask
  /\ call.tried[4].start[4] >= 1

----------------------------------------------------------------------------
(* deleteRange on a cursor whose start comes after its end *)

\* the two points of the cursor lie in the same text leaf, or in (or on) two
\* different children of the same array
InOneTextOrArray(es, c) ==
  \/ c.start.key = c.end.key /\ es[c.start.key].type = "text"
  \/ /\ c.start.key # c.end.key
     /\ LET lca == LowestCommonAncestor(es, c.start.key, c.end.key)
        IN lca \notin {c.start.key, c.end.key} /\ es[lca].type \in ArrayTypes

\* C39: for a non-collapsed cursor whose start point comes after its end
\* point in document order (both in the same text leaf, or in two children
\* of the same array), dispatchCommand(deleteRange) never duplicates
\* content: afterwards no text leaf is longer than before and no child key
\* occurs twice in an array
C39_BackwardRangeNoDuplicates ==
  [][(/\ DispatchStep("deleteRange")
      /\ ValidCursor(entries, cursor)
      /\ cursor # NullCursor
      /\ ~isCollapsed(cursor)
      /\ ~InDocumentOrder(entries, cursor)
      /\ InOneTextOrArray(entries, cursor))
     => /\ \A k \in DOMAIN entries :
             entries[k].type = "text"
             => Len(entries'[k].value) <= Len(entries[k].value)
        /\ \A a \in DOMAIN entries' :
             entries'[a].type \in ArrayTypes => Distinct(entries'[a].value)]_vars

====
